---- MODULE Spec2Model ----
(***************************************************************************)
(* A model of yabridge's native plugin bridge (NP, src/plugin/             *)
(* plugin-bridge.cpp) and of its entry point (src/plugin/vst2-plugin.cpp). *)
(* The Wine host (WH) is the environment: it dials the five sockets, sends *)
(* the initialization descriptor, answers requests, issues host callbacks, *)
(* and may exit at any time.                                               *)
(*                                                                         *)
(* Three specifications:                                                     *)
(*   Spec      WH dials in the order NP accepts in; construction, the      *)
(*             steady state with overlapping host calls, and close.        *)
(*   SpecDial  construction only, with WH dialling in any order and        *)
(*             possibly dialling once more than five times.                *)
(*   SpecFair  dispatch, effClose and process_replacing under fair         *)
(*             scheduling, for the claims about progress.                  *)
(***************************************************************************)
EXTENDS Integers, Sequences, FiniteSets, TLC

\* ------------------------------------------------------------------ bounds

\* The number of MIDI batches WH sends through the host callback in one run.
MaxBatches == 2

\* The number of connections WH dials in SpecDial counted above the five NP
\* accepts (a sixth connection stays in the listener's backlog).
MaxExtraDials == 1

\* The largest parameter index and the largest parameter value of SpecParam.
MaxParamIndex == 1

MaxParamValue == 1

\* The largest number of speakers of a speaker arrangement in SpecConverter.
MaxSpeakers == 2

\* The largest number of bytes of a plugin's chunk.
MaxChunk == 2

\* The largest number of input or output planes and of samples in a block.
MaxPlanes == 2

MaxFrames == 2

\* The longest of the short strings a message carries.
MaxText == 2

\* The largest index and option argument of a dispatch() call.
MaxArgument == 1

\* The number of sizes the plugin's editor takes.
MaxRect == 3

\* The longest PhysicalUIMapList.
MaxMaps == 2

\* The maximum size passed to text1b() and container().
MaxTextSize == 4096

\* ------------------------------------------------------- names and tables

\* The order in which the constructor accepts its sockets.
AcceptOrder_swapped ==
    <<"dispatch", "dispatch_midi", "parameters", "host_callback", "audio">>

AcceptOrder ==
    <<"dispatch", "dispatch_midi", "host_callback", "parameters", "audio">>

Channels == {"dispatch", "dispatch_midi", "host_callback", "parameters", "audio"}

\* The channels on which NP sends requests and WH answers.
RequestChannels == {"dispatch", "dispatch_midi", "parameters", "audio"}

\* The host's threads. Any of them may call any entry point of the plugin.
HostThreads == {"gui", "audio"}

Mutexes == {"dispatch_mutex", "dispatch_midi_events_mutex", "parameters_mutex",
            "incoming_midi_events_mutex"}

\* The opcodes of dispatch() that take different paths through the switch.
DispatchOpcodes == {"effClose", "effProcessEvents", "effCanDo_hasCockosViewAsConfig",
                    "effCanDo", "effOpen", "effOther"}

\* Host-callback opcodes.
HostCallbackOpcodes == {"audioMasterProcessEvents", "audioMasterOther"}

\* What WH's plugin and the host's callback return. The bridge passes these
\* values on without looking at them: one value that is none of the values the
\* bridge makes up itself (0, 1, -1) stands for all.
ReturnValues == {2}

\* Parameter indices and values. A value that may be absent (std::optional) is
\* a sequence of at most one value.
ParamIndices == 0 .. MaxParamIndex

ParamValues == 0 .. MaxParamValue

\* The group host processes one plugin instance may meet: one that runs already,
\* the one this instance starts, and one another instance starts at that time.
GroupProcesses == {"existing", "child", "rival"}

NoCall == [op |-> "none", failed |-> FALSE, i |-> 0, ret |-> 0, threw |-> FALSE,
           index |-> 0, value |-> <<>>, mismatch |-> FALSE, entry |-> "none"]

NoEvent == [opcode |-> "none", batch |-> 0]

\* An AudioBuffers object: the planes and sample_frames.
AudioBuffers(buffers, sample_frames) ==
    [buffers |-> buffers, sample_frames |-> sample_frames]

NoBuffers == AudioBuffers(<<>>, 0)

\* The outcome of deserializing: whether it succeeded, the error otherwise,
\* the object read and the bytes left.
Reader(ok, error, object, bytes) ==
    [ok |-> ok, error |-> error, object |-> object, bytes |-> bytes]

NoResult == Reader(FALSE, "none", <<>>, <<>>)

\* An EventPayload: its alternative and, for a DynamicSpeakerArrangement, its
\* speakers. An optional payload is a sequence of at most one payload.
Payload(kind, speakers) == [kind |-> kind, speakers |-> speakers]

NoPayloads == [payload |-> Payload("nullptr", <<>>), value_payload |-> <<>>]

\* A VstRect: top, left, bottom, right. The bridge's editor_rectangle before any
\* plugin has reported one.
NoRect == <<0, 0, 0, 0>>

VARIABLES
    mode,                       \* "individual" | "group": config.group.has_value()
    ctor,                       \* the constructor's position
    entry,                      \* what VSTPluginMain returned: "pending" | "plugin" | "null"
    notified,                   \* send_notification was called (with error.what())
    host_process,               \* "alive" | "terminated" (std::terminate)
    listener,                   \* socket_acceptor: "none" | "open" | "closed"
    endpoint_file,              \* the socket endpoint's file exists
    wh,                         \* the Wine host process: "none" | "running" | "exited"
    wh_requested,               \* WH knows the plugin and the endpoint to dial
    wh_dialed,                  \* the traffic classes WH dialled, in order
    backlog,                    \* dialled connections not yet accepted, in order
    sock,                       \* NP channel -> the WH class of the connection bound to it
    finished_accepting_sockets,
    probe,                      \* the liveness probe thread's position
    group_host_connect_handler, \* "none" | "loop" | "exited"
    wine_io_handler,            \* "none" | "running" | "exited"
    io_stopped,                 \* io_context.stop() was called
    plugin,                     \* the AEffect struct the host sees
    host_callback_handler,      \* the handler thread's position
    h_event,                    \* the event the handler is handling
    h_resp,                     \* the handler's response to it
    h_called,                   \* what the host's callback returned for h_event, or -1
    wh_init_sent,               \* WH wrote the initialization EventResult
    wh_conn,                    \* WH holds its ends of the sockets open
    wh_params,                  \* parameter index -> the value the plugin in WH holds
    np_dispatch_closed,         \* NP closed host_vst_dispatch
    req,                        \* WH class -> requests written by NP, not yet handled
    resp,                       \* WH class -> responses written by WH, not yet read
    cb_req,                     \* host-callback events written by WH, not yet read
    cb_resp,                    \* the handler's replies, not yet read by WH
    cb_waiting,                 \* WH waits for the reply to a host callback
    next_batch,                 \* the number of MIDI batches WH has sent
    lock,                       \* mutex -> its owner, or "free"
    incoming_midi_events,       \* the queue of MIDI batches for the host
    midi_enqueued,              \* every batch pushed on the queue, in order
    delivered,                  \* every batch passed to the host's callback, in order
    pc,                         \* host thread -> its position in a call
    call,                       \* host thread -> the call it is in
    freed,                      \* delete this has run
    d_pc,                       \* the converter's position in a dispatch() call
    d_opcode,                   \* that call's opcode
    d_data,                     \* the host's memory under the call's data pointer
    d_value,                    \* the host's memory under the call's value pointer
    d_event,                    \* the Event send_event() builds with the converter
    d_response,                 \* the EventResult the converter writes back
    d_chunk,                    \* chunk_data, the bridge's buffer for effGetChunk
    d_index,                    \* that call's index argument
    d_option,                   \* that call's option argument
    d_rect,                     \* editor_rectangle, the bridge's VstRect
    a_pc,                       \* process_replacing()'s position, for its data
    a_frames,                   \* sample_frames
    a_inputs,                   \* the host's input planes
    a_outputs,                  \* the host's output planes
    a_copied,                   \* samples std::copy moved from each input plane
    a_request,                  \* the AudioBuffers object written to WH
    a_response,                 \* the AudioBuffers object read from WH
    m_pc,                       \* a message's way through the serializer
    m_type,                     \* the message's type
    m_object,                   \* the object the sender serializes
    m_bytes,                    \* the bytes on the socket
    m_result,                   \* the receiver's outcome
    m_list,                     \* the host's PhysicalUIMapList after write_back()
    wh_callback_closed,         \* WH has closed its end of vst_host_callback alone
    group_process,              \* group host process -> "none" | "starting" | "listening" | "exited"
    vst_host_pid,               \* the process whose PID the probe tests in a plugin group
    group_answered,             \* the processes that sent a GroupResponse, in order
    group_accepted              \* sockets accepted from the group host that hosts the plugin

vars == <<mode, ctor, entry, notified, host_process, listener, endpoint_file, wh,
          wh_requested, wh_dialed, backlog, sock, finished_accepting_sockets, probe,
          group_host_connect_handler, wine_io_handler, io_stopped, plugin,
          host_callback_handler, h_event, h_resp, h_called, wh_init_sent, wh_conn,
          wh_params, np_dispatch_closed, req, resp, cb_req, cb_resp, cb_waiting, next_batch,
          lock, incoming_midi_events, midi_enqueued, delivered, pc, call, freed,
          d_pc, d_opcode, d_data, d_value, d_event, d_response, d_chunk,
          d_index, d_option, d_rect,
          a_pc, a_frames, a_inputs, a_outputs, a_copied, a_request, a_response,
          m_pc, m_type, m_object, m_bytes, m_result, m_list, wh_callback_closed,
          group_process, vst_host_pid, group_answered, group_accepted>>

\* The variables of construction, of the helper threads, of the channels and of
\* the host's calls, for UNCHANGED.
ctorVars == <<ctor, entry, notified, listener, endpoint_file, sock,
              finished_accepting_sockets, plugin>>
whVars == <<wh, wh_requested, wh_dialed, backlog, wh_init_sent, wh_conn, next_batch,
            cb_waiting>>
threadVars == <<probe, group_host_connect_handler, wine_io_handler, io_stopped>>
handlerVars == <<host_callback_handler, h_event, h_resp, h_called>>
chanVars == <<req, resp, cb_req, cb_resp, np_dispatch_closed>>
midiVars == <<incoming_midi_events, midi_enqueued, delivered>>
callVars == <<pc, call, lock, freed>>
convVars == <<d_pc, d_opcode, d_data, d_value, d_event, d_response, d_chunk,
              d_index, d_option, d_rect>>

\* The variables of the specifications that are about data only, and the one
\* no step of the bridge changes.
processVars == <<a_pc, a_frames, a_inputs, a_outputs, a_copied, a_request, a_response>>
messageVars == <<m_pc, m_type, m_object, m_bytes, m_result, m_list>>
groupVars == <<group_process, vst_host_pid, group_answered, group_accepted>>
dataVars == <<convVars, processVars, messageVars, wh_callback_closed, groupVars>>

Init ==
    /\ mode \in {"individual", "group"}
    /\ ctor = "init"
    /\ entry = "pending"
    /\ notified = FALSE
    /\ host_process = "alive"
    /\ listener = "none"
    /\ endpoint_file = FALSE
    /\ wh = "none"
    /\ wh_requested = FALSE
    /\ wh_dialed = <<>>
    /\ backlog = <<>>
    /\ sock = [c \in Channels |-> "none"]
    /\ finished_accepting_sockets = FALSE
    /\ probe = "none"
    /\ group_host_connect_handler = "none"
    /\ wine_io_handler = "none"
    /\ io_stopped = FALSE
    /\ plugin = [ptrs |-> FALSE, magic |-> 0, descriptor |-> 0]
    /\ host_callback_handler = "none"
    /\ h_event = NoEvent
    /\ h_resp = 0
    /\ h_called = -1
    /\ wh_init_sent = FALSE
    /\ wh_conn = FALSE
    /\ wh_params = [i \in ParamIndices |-> 0]
    /\ np_dispatch_closed = FALSE
    /\ req = [c \in RequestChannels |-> <<>>]
    /\ resp = [c \in RequestChannels |-> <<>>]
    /\ cb_req = <<>>
    /\ cb_resp = <<>>
    /\ cb_waiting = FALSE
    /\ next_batch = 0
    /\ lock = [m \in Mutexes |-> "free"]
    /\ incoming_midi_events = <<>>
    /\ midi_enqueued = <<>>
    /\ delivered = <<>>
    /\ pc = [t \in HostThreads |-> "idle"]
    /\ call = [t \in HostThreads |-> NoCall]
    /\ freed = FALSE
    /\ d_pc = "none"
    /\ d_opcode = "none"
    /\ d_data = <<>>
    /\ d_value = <<>>
    /\ d_event = NoPayloads
    /\ d_response = NoPayloads
    /\ d_chunk = <<>>
    /\ d_index = 0
    /\ d_option = 0
    /\ d_rect = NoRect
    /\ a_pc = "none"
    /\ a_frames = 0
    /\ a_inputs = <<>>
    /\ a_outputs = <<>>
    /\ a_copied = 0
    /\ a_request = NoBuffers
    /\ a_response = NoBuffers
    /\ m_pc = "none"
    /\ m_type = "none"
    /\ m_object = <<>>
    /\ m_bytes = <<>>
    /\ m_result = NoResult
    /\ m_list = <<>>
    /\ wh_callback_closed = FALSE
    /\ group_process = [p \in GroupProcesses |-> "none"]
    /\ vst_host_pid = "none"
    /\ group_answered = <<>>
    /\ group_accepted = 0

\* Nothing runs in a process that std::terminate has ended.
Alive == host_process = "alive"

\* std::terminate(), a failed assertion or an exception nobody catches ends the
\* host's process and with it every thread, mutex and socket of the bridge:
\* nothing of them is left to observe.
ProcessEnds ==
    /\ host_process' = "terminated"
    /\ pc' = [t \in HostThreads |-> "idle"]
    /\ call' = [t \in HostThreads |-> NoCall]
    /\ lock' = [m \in Mutexes |-> "free"]
    /\ h_event' = NoEvent
    /\ h_resp' = 0
    /\ h_called' = -1
    /\ req' = [c \in RequestChannels |-> <<>>]
    /\ resp' = [c \in RequestChannels |-> <<>>]
    /\ cb_req' = <<>>
    /\ cb_resp' = <<>>
    /\ cb_waiting' = FALSE
    /\ incoming_midi_events' = <<>>
    /\ midi_enqueued' = <<>>
    /\ delivered' = <<>>

\* What a step that ends the process leaves as it is.
keptAtEnd == <<mode, dataVars, ctor, entry, notified, listener, endpoint_file, wh, wh_requested,
               wh_dialed, backlog, sock, finished_accepting_sockets,
               group_host_connect_handler, wine_io_handler, io_stopped, plugin,
               host_callback_handler, wh_init_sent, wh_conn, wh_params,
               np_dispatch_closed, next_batch, freed>>

\* The number of sockets the constructor has accepted.
Accepted == Cardinality({c \in Channels : sock[c] # "none"})

\* ------------------------------------------------------------ construction

\* The member initializers: the endpoint and the acceptor listening on it.
CreateEndpoint ==
    /\ Alive /\ ctor = "init"
    /\ listener' = "open"
    /\ endpoint_file' = TRUE
    /\ ctor' = "launch"
    /\ UNCHANGED <<mode, dataVars, entry, notified, host_process, sock,
                   finished_accepting_sockets, plugin, whVars, wh_params, threadVars,
                   handlerVars, chanVars, midiVars, callVars>>

\* launch_vst_host(): an individually hosted plugin starts its own Wine process,
\* which gets the plugin and the endpoint on its command line. In a plugin group
\* NP first asks a running group host; when none answers it starts one and hands
\* the request to group_host_connect_handler. Then the io thread and the
\* liveness probe are started.
launch_vst_host ==
    /\ Alive /\ ctor = "launch"
    /\ wh' = "running"
    /\ \/ /\ mode = "individual"
          /\ wh_requested' = TRUE
          /\ group_host_connect_handler' = "none"
       \/ /\ mode = "group"
          /\ \/ wh_requested' = TRUE /\ group_host_connect_handler' = "none"
             \/ wh_requested' = FALSE /\ group_host_connect_handler' = "loop"
    /\ wine_io_handler' = "running"
    /\ probe' = "check_finished"
    /\ ctor' = "accept"
    /\ UNCHANGED <<mode, dataVars, entry, notified, host_process, listener, endpoint_file, sock,
                   finished_accepting_sockets, plugin, wh_dialed, backlog,
                   wh_init_sent, wh_params, wh_conn, next_batch, cb_waiting, io_stopped,
                   handlerVars, chanVars, midiVars, callVars>>

\* The group connect thread: while the process it started runs, try to hand it
\* the GroupRequest; return once it has answered.
GroupConnect ==
    /\ Alive /\ group_host_connect_handler = "loop"
    /\ IF wh = "running"
       THEN wh_requested' = TRUE
       ELSE UNCHANGED wh_requested
    /\ group_host_connect_handler' = "exited"
    /\ UNCHANGED <<mode, dataVars, host_process, ctorVars, wh, wh_dialed, backlog, wh_init_sent, wh_params,
                   wh_conn, next_batch, cb_waiting, probe, wine_io_handler, io_stopped,
                   handlerVars, chanVars, midiVars, callVars>>

\* The thread is detached and captures the bridge by reference: what it loads
\* from a bridge that effClose has deleted is whatever the freed memory holds.
ProbeLoads(member) == IF freed THEN BOOLEAN ELSE {member}

\* The liveness probe, first half of an iteration: return once all sockets have
\* been accepted.
ProbeCheckFinished ==
    /\ Alive /\ probe = "check_finished"
    /\ \E finished \in ProbeLoads(finished_accepting_sockets) :
          probe' = IF finished THEN "returned" ELSE "check_running"
    /\ UNCHANGED <<mode, dataVars, host_process, ctorVars, whVars, wh_params, group_host_connect_handler,
                   wine_io_handler, io_stopped, handlerVars, chanVars, midiVars,
                   callVars>>

\* The probe's test: vst_host.running(), or kill(vst_host_pid, 0) == 0 in a
\* plugin group.
vst_host_running_inverted == wh # "running"

vst_host_running == wh = "running"

\* What the probe does when it finds the Wine process gone: std::terminate().
ProbeFailure ==
    /\ probe' = "terminated"
    /\ ProcessEnds
    /\ UNCHANGED keptAtEnd

\* The liveness probe, second half: end the process when the Wine process is
\* gone, else sleep for a second.
ProbeCheckRunning ==
    /\ Alive /\ probe = "check_running"
    /\ \E running \in ProbeLoads(vst_host_running) :
          IF ~running
          THEN ProbeFailure
          ELSE /\ probe' = "check_finished"
               /\ UNCHANGED <<mode, dataVars, host_process, ctorVars, whVars, wh_params,
                              group_host_connect_handler, wine_io_handler, io_stopped,
                              handlerVars, chanVars, midiVars, callVars>>

\* The k-th accept() binds the connection at the head of the backlog to the
\* k-th socket of AcceptOrder, whatever WH means to use that connection for.
Accept ==
    /\ Alive /\ ctor = "accept"
    /\ Accepted < Len(AcceptOrder)
    /\ backlog # <<>>
    /\ sock' = [sock EXCEPT ![AcceptOrder[Accepted + 1]] = Head(backlog)]
    /\ backlog' = Tail(backlog)
    /\ UNCHANGED <<mode, dataVars, ctor, entry, notified, host_process, listener, endpoint_file,
                   finished_accepting_sockets, plugin, wh, wh_requested, wh_dialed,
                   wh_init_sent, wh_params, wh_conn, next_batch, cb_waiting, threadVars,
                   handlerVars, chanVars, midiVars, callVars>>

\* finished_accepting_sockets = true, after the fifth accept.
FinishAccepting ==
    /\ Alive /\ ctor = "accept"
    /\ Accepted = Len(AcceptOrder)
    /\ finished_accepting_sockets' = TRUE
    /\ ctor' = "cleanup"
    /\ UNCHANGED <<mode, dataVars, entry, notified, host_process, listener, endpoint_file, sock,
                   plugin, whVars, wh_params, threadVars, handlerVars, chanVars, midiVars,
                   callVars>>

\* fs::remove(socket_endpoint.path())
remove_endpoint_skipped == UNCHANGED endpoint_file

remove_endpoint == endpoint_file' = FALSE

\* socket_acceptor.close(); fs::remove(socket_endpoint.path()); then the
\* function pointers of the AEffect struct are set.
CloseAcceptor ==
    /\ Alive /\ ctor = "cleanup"
    /\ listener' = "closed"
    /\ remove_endpoint
    /\ plugin' = [plugin EXCEPT !.ptrs = TRUE]
    /\ ctor' = "spawn_handler"
    /\ UNCHANGED <<mode, dataVars, entry, notified, host_process, sock,
                   finished_accepting_sockets, whVars, wh_params, threadVars, handlerVars,
                   chanVars, midiVars, callVars>>

\* The handler thread when the constructor goes on to read the plugin's
\* AEffect: started, in receive_event().
HandlerBeforeInit_not_started == "none"

HandlerBeforeInit == "recv"

\* host_callback_handler = std::thread(...)
SpawnHandler ==
    /\ Alive /\ ctor = "spawn_handler"
    /\ host_callback_handler' = HandlerBeforeInit
    /\ ctor' = "read_init"
    /\ UNCHANGED <<mode, dataVars, entry, notified, host_process, listener, endpoint_file, sock,
                   finished_accepting_sockets, plugin, whVars, wh_params, threadVars, h_event,
                   h_resp, h_called, chanVars, midiVars, callVars>>

\* Whether WH's end of the connection bound to NP's channel c is gone.
Closed(c) ==
    \/ ~wh_conn
    \/ c = "dispatch" /\ np_dispatch_closed
    \/ c = "host_callback" /\ wh_callback_closed

\* update_aeffect(): copy the descriptor WH sent into the host's struct.
update_aeffect(descriptor) ==
    plugin' = [plugin EXCEPT !.magic = 1, !.descriptor = descriptor]

\* read_object<EventResult>(host_vst_dispatch) and update_aeffect(): the end of
\* the constructor. VSTPluginMain then returns the plugin struct. The probe's two
\* checks are adjacent loads, while this read waits for WH to load the plugin:
\* the probe is taken not to be between its two checks when the read returns.
ReadInit ==
    /\ Alive /\ ctor = "read_init"
    /\ sock["dispatch"] = "dispatch"
    /\ resp["dispatch"] # <<>>
    /\ probe # "check_running"
    /\ update_aeffect(Head(resp["dispatch"]).descriptor)
    /\ resp' = [resp EXCEPT !["dispatch"] = Tail(@)]
    /\ ctor' = "done"
    /\ entry' = "plugin"
    /\ UNCHANGED <<mode, dataVars, notified, host_process, listener, endpoint_file, sock,
                   finished_accepting_sockets, whVars, wh_params, threadVars, handlerVars, req,
                   cb_req, cb_resp, np_dispatch_closed, midiVars, callVars>>

\* The read fails with a system_error when WH has gone. The exception leaves the
\* constructor while wine_io_handler and host_callback_handler are running
\* threads: with plain std::thread members their destructors end the process;
\* with joining members VSTPluginMain's handler logs the error, sends the
\* notification and returns a null pointer. The declarations are not part of the
\* sources at hand, so both outcomes are possible.
ReadInitFails ==
    /\ Alive /\ ctor = "read_init"
    /\ sock["dispatch"] = "dispatch" => resp["dispatch"] = <<>>
    /\ ~wh_conn
    /\ ctor' = "threw"
    /\ \/ /\ ProcessEnds
          /\ UNCHANGED <<mode, dataVars, entry, notified, listener, endpoint_file, wh,
                         wh_requested, wh_dialed, backlog, sock,
                         finished_accepting_sockets, probe,
                         group_host_connect_handler, wine_io_handler, io_stopped,
                         plugin, host_callback_handler, wh_init_sent, wh_params, wh_conn,
                         np_dispatch_closed, next_batch, freed>>
       \/ /\ host_callback_handler = "exited"
          /\ wine_io_handler = "exited"
          /\ entry' = "null"
          /\ notified' = TRUE
          /\ UNCHANGED <<mode, dataVars, host_process, listener, endpoint_file, sock,
                         finished_accepting_sockets, plugin, whVars, wh_params, threadVars,
                         handlerVars, chanVars, midiVars, callVars>>

\* ---------------------------------------------------------- WH, at startup

\* The classes WH has not dialled yet.
NotDialed == {c \in Channels : \A i \in 1..Len(wh_dialed) : wh_dialed[i] # c}

\* WH connects one of its sockets to the endpoint. The connection waits in the
\* listener's backlog until NP accepts it.
WHDial(c) ==
    /\ Alive /\ wh = "running" /\ wh_requested
    /\ listener = "open"
    /\ c \in NotDialed
    /\ wh_dialed' = Append(wh_dialed, c)
    /\ backlog' = Append(backlog, c)
    /\ wh_conn' = TRUE
    /\ UNCHANGED <<mode, dataVars, host_process, ctorVars, wh, wh_requested, wh_init_sent, wh_params,
                   next_batch, cb_waiting, threadVars, handlerVars, chanVars,
                   midiVars, callVars>>

\* WH dials in the order of the accepts.
WHDialInOrder ==
    /\ Len(wh_dialed) < Len(AcceptOrder)
    /\ WHDial(<<"dispatch", "dispatch_midi", "host_callback", "parameters",
                "audio">>[Len(wh_dialed) + 1])

\* WH dials in whatever order.
WHDialAnyOrder ==
    \E c \in Channels : WHDial(c)

\* WH dials once more after its five sockets.
WHDialExtra ==
    /\ Alive /\ wh = "running" /\ wh_requested
    /\ listener = "open"
    /\ NotDialed = {}
    /\ Len(wh_dialed) < Len(AcceptOrder) + MaxExtraDials
    /\ wh_dialed' = Append(wh_dialed, "extra")
    /\ backlog' = Append(backlog, "extra")
    /\ UNCHANGED <<mode, dataVars, host_process, ctorVars, wh, wh_requested, wh_init_sent, wh_params,
                   wh_conn, next_batch, cb_waiting, threadVars, handlerVars, chanVars,
                   midiVars, callVars>>

\* Once its five sockets are connected WH loads the plugin and writes the
\* plugin's AEffect on its dispatch socket.
WHSendInit ==
    /\ Alive /\ wh = "running" /\ wh_conn
    /\ NotDialed = {}
    /\ ~wh_init_sent
    /\ ~cb_waiting
    /\ wh_init_sent' = TRUE
    /\ resp' = [resp EXCEPT !["dispatch"] =
                    Append(@, [for |-> "ctor", ret |-> 0, descriptor |-> 1,
                               value |-> <<>>])]
    /\ UNCHANGED <<mode, dataVars, host_process, ctorVars, wh, wh_requested, wh_dialed, backlog,
                   wh_conn, wh_params, next_batch, cb_waiting, threadVars, handlerVars, req,
                   cb_req, cb_resp, np_dispatch_closed, midiVars, callVars>>

\* The Wine process exits or crashes: its ends of all sockets close, and what it
\* had not read or NP had not read yet is lost with them.
WHExit ==
    /\ Alive /\ wh = "running"
    /\ wh' = "exited"
    /\ wh_conn' = FALSE
    /\ cb_waiting' = FALSE
    /\ req' = [c \in RequestChannels |-> <<>>]
    /\ cb_resp' = <<>>
    /\ UNCHANGED <<mode, dataVars, host_process, ctorVars, wh_requested, wh_dialed, backlog,
                   wh_init_sent, wh_params, next_batch, threadVars, handlerVars, resp, cb_req,
                   np_dispatch_closed, midiVars, callVars>>

\* ------------------------------------------------------------- the channels

\* NP's channel c is connected to the WH socket of the same traffic class.
Bound(c) == sock[c] = c

\* write_object(): append a message to what WH has to read.
write_object(c, msg) ==
    req' = [req EXCEPT ![c] = Append(@, msg)]

\* read_object() blocks until a response or the end of the stream arrives.
CanRead(c) == resp[c] # <<>>
ReadFails(c) == resp[c] = <<>> /\ Closed(c)

Request(t, op) == [from |-> t, op |-> op]

\* The Parameter object of get_parameter() (no value) and of set_parameter().
Parameter_index0(t, op, index, value) ==
    [from |-> t, op |-> op, index |-> 0,
     value |-> IF op = "get_parameter" THEN <<>> ELSE <<value>>]

Parameter(t, op, index, value) ==
    [from |-> t, op |-> op, index |-> index,
     value |-> IF op = "get_parameter" THEN <<>> ELSE <<value>>]

\* ------------------------------------------------------ the host's calls

\* The host has the plugin struct and has not had it freed under it.
HostHasPlugin == entry = "plugin" /\ ~freed

\* The host opens a plugin before it uses it: effOpen is its first call, and
\* only effClose may come instead of it or while it runs.
HostMayCall(op) ==
    \/ op = "effClose"
    \/ op = "effOpen" /\ plugin.descriptor = 1
                      /\ \A u \in HostThreads : call[u].op # "effOpen"
    \/ op \notin {"effClose", "effOpen"} /\ plugin.descriptor = 2

\* The probe's last poll, which finds finished_accepting_sockets set and
\* returns, touches nothing a host call reads or writes. It is scheduled before
\* the host's first call other than effClose; against effClose, which frees what
\* the probe reads, every order is kept.
ProbeQuiet(op) == op = "effClose" \/ probe = "returned"

\* How a call ends: with a return value, or with an exception that leaves the
\* plugin's entry point.
Return(t, ret) ==
    /\ pc' = [pc EXCEPT ![t] = "done"]
    /\ call' = [call EXCEPT ![t].ret = ret]

Throw(t) ==
    /\ pc' = [pc EXCEPT ![t] = "done"]
    /\ call' = [call EXCEPT ![t].threw = TRUE]

\* The socket and the mutex dispatch() passes to send_event().
DispatchChannel(op) ==
    IF op = "effProcessEvents" THEN "dispatch_midi" ELSE "dispatch"

DispatchMutex_single(op) == "dispatch_mutex"

DispatchMutex_close_apart(op) ==
    IF op \in {"effProcessEvents", "effClose"}
    THEN "dispatch_midi_events_mutex"
    ELSE "dispatch_mutex"

DispatchMutex(op) ==
    IF op = "effProcessEvents" THEN "dispatch_midi_events_mutex" ELSE "dispatch_mutex"

\* The Ardour workaround at the top of dispatch(): plugin.magic == 0.
PreInit_never == FALSE

PreInit == plugin.magic = 0

\* The effCanDo query dispatch() answers itself: "hasCockosViewAsConfig". Every
\* other query ("effCanDo") breaks out of the switch to the generic send_event().
IsLocalQuery_never(op) == FALSE

IsLocalQuery(op) == op = "effCanDo_hasCockosViewAsConfig"

\* The host's callback has run for an event of the plugin's initialization,
\* with the AEffect struct as its argument, while the constructor waits for
\* WH's descriptor: a host that calls the dispatcher from there (Ardour 5.X)
\* does so before VSTPluginMain has returned.
EarlyCall ==
    /\ ctor = "read_init"
    /\ host_callback_handler = "reply"
    /\ h_called # -1

\* Where dispatch() goes when send_event() throws a system_error: effClose
\* catches it and goes on with the shutdown, every other opcode lets it leave.
DispatchCatches_none(op) == FALSE

DispatchCatches(op) == op = "effClose"

\* Where dispatch() goes when send_event() has returned.
AfterSendEvent_return(op) == "done"

AfterSendEvent(op) == IF op = "effClose" THEN "close_terminate" ELSE "done"

\* send_event() failed in dispatch().
send_event_throws(t, op) ==
    IF DispatchCatches(op)
    THEN /\ pc' = [pc EXCEPT ![t] = "close_terminate"]
         /\ call' = [call EXCEPT ![t] = [NoCall EXCEPT !.op = op, !.failed = TRUE]]
    ELSE /\ pc' = [pc EXCEPT ![t] = "done"]
         /\ call' = [call EXCEPT ![t] = [NoCall EXCEPT !.op = op, !.threw = TRUE]]

\* send_event(), first half: take the mutex and write the event; a closed
\* socket throws and the lock guard gives the mutex back.
send_event_write(t, op, c, m) ==
    /\ lock[m] = "free"
    /\ Bound(c)
    /\ IF Closed(c)
       THEN /\ send_event_throws(t, op)
            /\ UNCHANGED <<req, lock>>
       ELSE /\ write_object(c, Request(t, op))
            /\ lock' = [lock EXCEPT ![m] = t]
            /\ pc' = [pc EXCEPT ![t] = "send_event_read"]
            /\ call' = [call EXCEPT ![t] = [NoCall EXCEPT !.op = op]]

\* The body of dispatch(): the Ardour workaround, the opcodes answered without
\* contacting WH, and the call of send_event() up to the point where it waits
\* for WH. A call that waits for its mutex has not done anything yet: it begins
\* when it gets the mutex.
dispatch_switch(t, op) ==
    /\ IF PreInit
       THEN /\ pc' = [pc EXCEPT ![t] = "done"]
            /\ call' = [call EXCEPT ![t] = [NoCall EXCEPT !.op = op, !.ret = 0]]
            /\ UNCHANGED <<req, lock>>
       ELSE IF IsLocalQuery(op)
       THEN /\ pc' = [pc EXCEPT ![t] = "done"]
            /\ call' = [call EXCEPT ![t] = [NoCall EXCEPT !.op = op, !.ret = -1]]
            /\ UNCHANGED <<req, lock>>
       ELSE send_event_write(t, op, DispatchChannel(op), DispatchMutex(op))
    /\ UNCHANGED <<mode, dataVars, host_process, ctorVars, whVars, wh_params, threadVars, handlerVars,
                   resp, cb_req, cb_resp, np_dispatch_closed, midiVars, freed>>

\* The host calls the dispatcher of a plugin VSTPluginMain has returned.
dispatch(t, op) ==
    /\ Alive /\ HostHasPlugin
    /\ pc[t] = "idle"
    /\ op = "effClose" => \A u \in HostThreads : call[u].op # "effClose"
    /\ HostMayCall(op) /\ ProbeQuiet(op)
    /\ dispatch_switch(t, op)

\* The host calls the dispatcher from its callback during the plugin's
\* initialization.
dispatch_early(t, op) ==
    /\ Alive /\ EarlyCall
    /\ pc[t] = "idle"
    /\ dispatch_switch(t, op)

\* DispatchDataConverter::write(): effOpen copies the updated AEffect into the
\* host's struct; no other opcode touches it.
converter_write_always(op, response) ==
    update_aeffect(response.descriptor)

converter_write(op, response) ==
    IF op = "effOpen"
    THEN update_aeffect(response.descriptor)
    ELSE UNCHANGED plugin

\* send_event(), second half: read the response, give the mutex back, write the
\* response's payload back and return its return value.
send_event_read(t) ==
    LET op == call[t].op
        c == DispatchChannel(op)
        m == DispatchMutex(op)
    IN  /\ Alive /\ pc[t] = "send_event_read"
        /\ lock' = [lock EXCEPT ![m] = "free"]
        /\ \/ /\ CanRead(c)
              /\ resp' = [resp EXCEPT ![c] = Tail(@)]
              /\ converter_write(op, Head(resp[c]))
              /\ pc' = [pc EXCEPT ![t] = AfterSendEvent(op)]
              /\ call' = [call EXCEPT ![t].ret = Head(resp[c]).ret]
           \/ /\ ReadFails(c)
              /\ send_event_throws(t, op)
              /\ UNCHANGED <<resp, plugin>>
        /\ UNCHANGED <<mode, dataVars, host_process, ctor, entry, notified, listener,
                       endpoint_file, sock, finished_accepting_sockets, whVars, wh_params,
                       threadVars, handlerVars, req, cb_req, cb_resp,
                       np_dispatch_closed, midiVars, freed>>

\* std::lock_guard lock(parameters_mutex)
parameters_lock_absent(t) ==
    UNCHANGED lock

parameters_lock(t) ==
    /\ lock["parameters_mutex"] = "free"
    /\ lock' = [lock EXCEPT !["parameters_mutex"] = t]

parameters_unlock(t) ==
    lock' = [lock EXCEPT !["parameters_mutex"] =
                             IF @ = t THEN "free" ELSE @]

\* get_parameter() and set_parameter(), up to the point where they wait for
\* WH: take parameters_mutex and write the request.
parameter_write(t, op, index, value) ==
    /\ Alive /\ HostHasPlugin
    /\ pc[t] = "idle"
    /\ HostMayCall(op) /\ ProbeQuiet(op)
    /\ Bound("parameters")
    /\ IF Closed("parameters")
       THEN /\ lock["parameters_mutex"] = "free"
            /\ pc' = [pc EXCEPT ![t] = "done"]
            /\ call' = [call EXCEPT ![t] = [NoCall EXCEPT !.op = op, !.threw = TRUE]]
            /\ UNCHANGED <<req, lock>>
       ELSE /\ parameters_lock(t)
            /\ write_object("parameters", Parameter(t, op, index, value))
            /\ pc' = [pc EXCEPT ![t] = "parameter_read"]
            /\ call' = [call EXCEPT ![t] =
                           [NoCall EXCEPT !.op = op, !.index = index,
                                          !.value = Parameter(t, op, index, value).value]]
    /\ UNCHANGED <<mode, dataVars, host_process, ctorVars, whVars, wh_params, threadVars, handlerVars,
                   resp, cb_req, cb_resp, np_dispatch_closed, midiVars, freed>>

\* Whether the response suits the request: a value for get_parameter(), none
\* for set_parameter().
ParameterResultOk(op, response) ==
    IF op = "get_parameter" THEN response.value # <<>> ELSE response.value = <<>>

\* What the call returns for a response that suits it: get_parameter() returns
\* response.value.value(), set_parameter() is void.
ParameterReturn(op, response) ==
    IF op = "get_parameter" THEN response.value[1] ELSE 0

\* Read the response and give the mutex back. get_parameter() returns
\* response.value.value(), which throws std::bad_optional_access when the value
\* is absent; set_parameter() asserts that the value is absent: the failed
\* assertion ends the process, and a build with NDEBUG has no assertion and
\* returns.
parameter_read(t) ==
    /\ Alive /\ pc[t] = "parameter_read"
    /\ \/ /\ CanRead("parameters")
          /\ ParameterResultOk(call[t].op, Head(resp["parameters"]))
          /\ resp' = [resp EXCEPT !["parameters"] = Tail(@)]
          /\ parameters_unlock(t)
          /\ Return(t, ParameterReturn(call[t].op, Head(resp["parameters"])))
          /\ UNCHANGED <<mode, dataVars, host_process, ctorVars, whVars, wh_params, threadVars,
                         handlerVars, req, cb_req, cb_resp, np_dispatch_closed,
                         midiVars, freed>>
       \/ /\ \/ ReadFails("parameters")
             \/ /\ CanRead("parameters")
                /\ call[t].op = "get_parameter"
                /\ ~ParameterResultOk(call[t].op, Head(resp["parameters"]))
          /\ resp' = [resp EXCEPT !["parameters"] = IF @ = <<>> THEN @ ELSE Tail(@)]
          /\ parameters_unlock(t)
          /\ pc' = [pc EXCEPT ![t] = "done"]
          /\ call' = [call EXCEPT ![t].threw = TRUE, ![t].mismatch = CanRead("parameters")]
          /\ UNCHANGED <<mode, dataVars, host_process, ctorVars, whVars, wh_params, threadVars,
                         handlerVars, req, cb_req, cb_resp, np_dispatch_closed,
                         midiVars, freed>>
       \/ /\ CanRead("parameters")
          /\ call[t].op = "set_parameter"
          /\ ~ParameterResultOk(call[t].op, Head(resp["parameters"]))
          /\ \/ /\ ProcessEnds
                /\ UNCHANGED <<keptAtEnd, probe>>
             \/ /\ resp' = [resp EXCEPT !["parameters"] = Tail(@)]
                /\ parameters_unlock(t)
                /\ pc' = [pc EXCEPT ![t] = "done"]
                /\ call' = [call EXCEPT ![t].mismatch = TRUE]
                /\ UNCHANGED <<mode, dataVars, host_process, ctorVars, whVars, wh_params,
                               threadVars, handlerVars, req, cb_req, cb_resp,
                               np_dispatch_closed, midiVars, freed>>

\* The socket process_replacing() uses: host_vst_process_replacing.
ProcessChannel_dispatch == "dispatch"

ProcessChannel == "audio"

\* What follows write_object() in process_replacing(): read_object() and the
\* copy of the outputs, and only then the delivery of the queued MIDI events.
AfterProcessWrite_deliver == "midi_lock"

AfterProcessWrite == "audio_read"

\* process_replacing(), up to the point where it waits for WH:
\* write_object(host_vst_process_replacing, request, process_buffer). No mutex
\* is taken. entry is the function of the AEffect the host called.
process_replacing(t, proxy) ==
    /\ Alive /\ HostHasPlugin
    /\ pc[t] = "idle"
    /\ HostMayCall("process_replacing") /\ ProbeQuiet("process_replacing")
    /\ Bound(ProcessChannel)
    /\ IF Closed(ProcessChannel)
       THEN /\ pc' = [pc EXCEPT ![t] = "done"]
            /\ call' = [call EXCEPT ![t] =
                            [NoCall EXCEPT !.op = "process_replacing", !.threw = TRUE,
                                           !.entry = proxy]]
            /\ UNCHANGED req
       ELSE /\ write_object(ProcessChannel, Request(t, "process_replacing"))
            /\ pc' = [pc EXCEPT ![t] = AfterProcessWrite]
            /\ call' = [call EXCEPT ![t] = [NoCall EXCEPT !.op = "process_replacing",
                                                         !.entry = proxy]]
    /\ UNCHANGED <<mode, dataVars, host_process, ctorVars, whVars, wh_params, threadVars, handlerVars,
                   resp, cb_req, cb_resp, np_dispatch_closed, midiVars, lock, freed>>

\* process_proxy() and process_replacing_proxy(), the AEffect's process and
\* processReplacing: both call process_replacing().
process_proxy(t) == process_replacing(t, "process")

process_replacing_proxy(t) == process_replacing(t, "processReplacing")

\* A call of processReplacing.
audio_write(t) == process_replacing_proxy(t)

\* read_object<AudioBuffers>() and the copy to the host's outputs.
audio_read(t) ==
    /\ Alive /\ pc[t] = "audio_read"
    /\ \/ /\ CanRead(ProcessChannel)
          /\ resp' = [resp EXCEPT ![ProcessChannel] = Tail(@)]
          /\ pc' = [pc EXCEPT ![t] = "midi_lock"]
          /\ UNCHANGED call
       \/ /\ ReadFails(ProcessChannel)
          /\ Throw(t)
          /\ UNCHANGED resp
    /\ UNCHANGED <<mode, dataVars, host_process, ctorVars, whVars, wh_params, threadVars, handlerVars,
                   req, cb_req, cb_resp, np_dispatch_closed, midiVars, lock, freed>>

\* std::lock_guard lock(incoming_midi_events_mutex), held to the end of
\* process_replacing().
midi_lock(t) ==
    /\ Alive /\ pc[t] = "midi_lock"
    /\ lock["incoming_midi_events_mutex"] = "free"
    /\ lock' = [lock EXCEPT !["incoming_midi_events_mutex"] = t]
    /\ pc' = [pc EXCEPT ![t] = "midi_deliver"]
    /\ call' = [call EXCEPT ![t].i = 1]
    /\ UNCHANGED <<mode, dataVars, host_process, ctorVars, whVars, wh_params, threadVars, handlerVars,
                   chanVars, midiVars, freed>>

\* incoming_midi_events.clear()
clear_incoming_skipped == UNCHANGED incoming_midi_events

clear_incoming == incoming_midi_events' = <<>>

\* One round of the loop over incoming_midi_events: pass the next batch to the
\* host's callback. After the last one: clear the queue and return, which gives
\* the mutex back.
midi_deliver(t) ==
    /\ Alive /\ pc[t] = "midi_deliver"
    /\ IF call[t].i <= Len(incoming_midi_events)
       THEN /\ delivered' = Append(delivered, incoming_midi_events[call[t].i])
            /\ call' = [call EXCEPT ![t].i = @ + 1]
            /\ UNCHANGED <<pc, lock, incoming_midi_events>>
       ELSE /\ clear_incoming
            /\ lock' = [lock EXCEPT !["incoming_midi_events_mutex"] = "free"]
            /\ pc' = [pc EXCEPT ![t] = "done"]
            /\ UNCHANGED <<call, delivered>>
    /\ UNCHANGED <<mode, dataVars, host_process, ctorVars, whVars, wh_params, threadVars, handlerVars,
                   chanVars, midi_enqueued, freed>>

\* The call has ended and the host's thread goes on.
HostReturn(t) ==
    /\ Alive /\ pc[t] = "done"
    /\ pc' = [pc EXCEPT ![t] = "idle"]
    /\ call' = [call EXCEPT ![t] = NoCall]
    /\ UNCHANGED <<mode, dataVars, host_process, ctorVars, whVars, wh_params, threadVars, handlerVars,
                   chanVars, midiVars, lock, freed>>

\* An exception that left the plugin's entry point and that nothing in the host
\* catches ends the process.
HostUncaught(t) ==
    /\ Alive /\ pc[t] = "done" /\ call[t].threw
    /\ ProcessEnds
    /\ UNCHANGED <<keptAtEnd, probe>>

\* ------------------------------------------------------------------ effClose

\* Whether effClose terminates the Wine process: !config.group.has_value().
KillsHost_always == TRUE

KillsHost == mode = "individual"

\* Individually hosted: vst_host.terminate(), which closes all of WH's sockets.
\* In a plugin group: host_vst_dispatch.close().
close_terminate(t) ==
    /\ Alive /\ pc[t] = "close_terminate"
    /\ IF KillsHost
       THEN /\ wh' = "exited"
            /\ wh_conn' = FALSE
            /\ cb_waiting' = FALSE
            /\ req' = [c \in RequestChannels |-> <<>>]
            /\ cb_resp' = <<>>
            /\ UNCHANGED np_dispatch_closed
       ELSE /\ np_dispatch_closed' = TRUE
            /\ req' = [req EXCEPT !["dispatch"] = <<>>]
            /\ UNCHANGED <<wh, wh_conn, cb_waiting, cb_resp>>
    /\ pc' = [pc EXCEPT ![t] = "close_stop"]
    /\ UNCHANGED <<mode, dataVars, host_process, ctorVars, wh_requested, wh_dialed, backlog,
                   wh_init_sent, wh_params, next_batch, threadVars, handlerVars, resp, cb_req,
                   midiVars, call, lock, freed>>

\* io_context.stop()
close_stop(t) ==
    /\ Alive /\ pc[t] = "close_stop"
    /\ io_stopped' = TRUE
    /\ pc' = [pc EXCEPT ![t] = "close_join"]
    /\ UNCHANGED <<mode, dataVars, host_process, ctorVars, whVars, wh_params, probe,
                   group_host_connect_handler, wine_io_handler, handlerVars,
                   chanVars, midiVars, call, lock, freed>>

\* What the three joins wait for: group_host_connect_handler only when it is
\* joinable, host_callback_handler and wine_io_handler always.
Joined_none == TRUE

Joined ==
    /\ group_host_connect_handler \in {"none", "exited"}
    /\ host_callback_handler = "exited"
    /\ wine_io_handler = "exited"

\* The joins return once the threads have finished.
close_join(t) ==
    /\ Alive /\ pc[t] = "close_join"
    /\ Joined
    /\ pc' = [pc EXCEPT ![t] = "close_delete"]
    /\ UNCHANGED <<mode, dataVars, host_process, ctorVars, whVars, wh_params, threadVars, handlerVars,
                   chanVars, midiVars, call, lock, freed>>

\* delete this; return return_value;
close_delete(t) ==
    /\ Alive /\ pc[t] = "close_delete"
    /\ freed' = TRUE
    /\ pc' = [pc EXCEPT ![t] = "done"]
    /\ UNCHANGED <<mode, dataVars, host_process, ctorVars, whVars, wh_params, threadVars, handlerVars,
                   chanVars, midiVars, call, lock>>

\* A thread that is still inside a call when the bridge is deleted goes on with
\* freed memory; one of the outcomes is that the process ends.
UseAfterFree(t) ==
    /\ Alive /\ freed
    /\ pc[t] \notin {"idle", "done"}
    /\ ProcessEnds
    /\ UNCHANGED <<keptAtEnd, probe>>

\* --------------------------------------------------- the helper threads

\* wine_io_handler runs io_context.run(), which returns when the context is
\* stopped or when the pipes of the Wine process have reached their end.
IoExit ==
    /\ Alive /\ wine_io_handler = "running"
    /\ io_stopped \/ wh # "running"
    /\ wine_io_handler' = "exited"
    /\ UNCHANGED <<mode, dataVars, host_process, ctorVars, whVars, wh_params, probe,
                   group_host_connect_handler, io_stopped, handlerVars, chanVars,
                   midiVars, callVars>>

\* The handler's callback: MIDI events from the plugin are kept for the end of
\* process_replacing(), every other event goes to passthrough_event().
IsQueued_never(opcode) == FALSE

IsQueued(opcode) == opcode = "audioMasterProcessEvents"

\* catch (const boost::system::system_error&) around the handler's loop: the
\* thread's function returns. An exception that left it would end the process.
HandlerCatches_none == FALSE

HandlerCatches == TRUE

\* receive_event(), first half: read the next event from vst_host_callback. The
\* end of the stream throws the system_error that ends the thread.
HandlerRecv ==
    /\ Alive /\ host_callback_handler = "recv"
    /\ Bound("host_callback")
    /\ \/ /\ cb_req # <<>>
          /\ h_event' = Head(cb_req)
          /\ cb_req' = Tail(cb_req)
          /\ host_callback_handler' =
                 IF IsQueued(Head(cb_req).opcode) THEN "lock" ELSE "call"
          /\ UNCHANGED <<mode, dataVars, host_process, ctorVars, whVars, wh_params,
                         threadVars, h_resp, h_called, req, resp, cb_resp,
                         np_dispatch_closed, midiVars, callVars>>
       \/ /\ cb_req = <<>> /\ Closed("host_callback")
          /\ IF HandlerCatches
             THEN /\ host_callback_handler' = "exited"
                  /\ UNCHANGED <<mode, dataVars, host_process, ctorVars, whVars,
                                 wh_params, threadVars, h_event, h_resp, h_called,
                                 chanVars, midiVars, callVars>>
             ELSE /\ ProcessEnds
                  /\ UNCHANGED <<keptAtEnd, probe>>

\* audioMasterProcessEvents: std::lock_guard lock(incoming_midi_events_mutex)
HandlerLock ==
    /\ Alive /\ host_callback_handler = "lock"
    /\ lock["incoming_midi_events_mutex"] = "free"
    /\ lock' = [lock EXCEPT !["incoming_midi_events_mutex"] = "handler"]
    /\ host_callback_handler' = "push"
    /\ UNCHANGED <<mode, dataVars, host_process, ctorVars, whVars, wh_params, threadVars, h_event, h_resp,
                   h_called, chanVars, midiVars, pc, call, freed>>

\* The response to audioMasterProcessEvents: EventResult{1, nullptr, nullopt}.
ProcessEventsResult == 1

\* incoming_midi_events.push_back(...)
push_back_replacing(events, batch) == <<batch>>

push_back(events, batch) == Append(events, batch)

\* The end of the block of the handler's std::lock_guard: the return of the
\* response gives incoming_midi_events_mutex back.
lock_guard_ends_with_thread(l) == l

lock_guard_ends(l) == [l EXCEPT !["incoming_midi_events_mutex"] = "free"]

\* incoming_midi_events.push_back(...); the lambda returns the response and the
\* lock guard gives the mutex back.
HandlerPush ==
    /\ Alive /\ host_callback_handler = "push"
    /\ incoming_midi_events' = push_back(incoming_midi_events, h_event.batch)
    /\ midi_enqueued' = Append(midi_enqueued, h_event.batch)
    /\ h_resp' = ProcessEventsResult
    /\ lock' = lock_guard_ends(lock)
    /\ host_callback_handler' = "reply"
    /\ UNCHANGED <<mode, dataVars, host_process, ctorVars, whVars, wh_params, threadVars, h_event, h_called,
                   chanVars, delivered, pc, call, freed>>

\* Every other event: passthrough_event() calls the host's callback and makes
\* the response from what it returns.
HandlerCall ==
    /\ Alive /\ host_callback_handler = "call"
    /\ \E r \in ReturnValues :
          /\ h_called' = r
          /\ h_resp' = r
    /\ host_callback_handler' = "reply"
    /\ UNCHANGED <<mode, dataVars, host_process, ctorVars, whVars, wh_params, threadVars, h_event, chanVars,
                   midiVars, callVars>>

\* receive_event(), second half: write the response. A closed socket throws
\* the system_error that ends the thread.
HandlerReply ==
    /\ Alive /\ host_callback_handler = "reply"
    /\ IF Closed("host_callback") /\ ~HandlerCatches
       THEN /\ ProcessEnds
            /\ UNCHANGED <<keptAtEnd, probe>>
       ELSE /\ IF ~Closed("host_callback")
               THEN /\ cb_resp' = Append(cb_resp, [opcode |-> h_event.opcode,
                                                   ret |-> h_resp])
                    /\ host_callback_handler' = "recv"
               ELSE /\ host_callback_handler' = "exited"
                    /\ UNCHANGED cb_resp
            /\ h_event' = NoEvent
            /\ h_resp' = 0
            /\ h_called' = -1
            /\ UNCHANGED <<mode, dataVars, host_process, ctorVars, whVars, wh_params,
                           threadVars, req, resp, cb_req, np_dispatch_closed,
                           midiVars, callVars>>

\* ------------------------------------------------------ WH, steady state

\* WH serves its sockets once the plugin is loaded.
WHServing == wh = "running" /\ wh_conn /\ wh_init_sent

\* What WH answers to a request.
WHResponse(request, ret) ==
    [for |-> request.from,
     ret |-> ret,
     descriptor |-> IF request.op = "effOpen" THEN 2 ELSE 0,
     value |-> <<>>]

\* What WH answers on the parameters socket: the plugin's value for a request
\* without a value, an acknowledgement without a value for a request with one.
WHParameterResult(request) ==
    [for |-> request.from,
     ret |-> 0,
     descriptor |-> 0,
     value |-> IF request.value = <<>> THEN <<wh_params[request.index]>> ELSE <<>>]

\* A response of the wrong shape: no value for a request without one, a value
\* for a request with one.
WHWrongParameterResult(request) ==
    [for |-> request.from,
     ret |-> 0,
     descriptor |-> 0,
     value |-> IF request.value = <<>> THEN <<>> ELSE request.value]

\* The plugin in WH takes the value of a request that carries one.
WHSetParameter(request) ==
    IF request.value = <<>>
    THEN wh_params
    ELSE [wh_params EXCEPT ![request.index] = request.value[1]]

\* One of WH's loops reads a request, lets the plugin handle it and writes the
\* response.
WHHandle(c) ==
    /\ Alive /\ WHServing
    /\ req[c] # <<>>
    /\ IF c = "parameters"
       THEN /\ resp' = [resp EXCEPT ![c] = Append(@, WHParameterResult(Head(req[c])))]
            /\ wh_params' = WHSetParameter(Head(req[c]))
       ELSE /\ \E ret \in (IF c \in {"dispatch", "dispatch_midi"}
                            THEN ReturnValues ELSE {0}) :
                  resp' = [resp EXCEPT ![c] = Append(@, WHResponse(Head(req[c]), ret))]
            /\ UNCHANGED wh_params
    /\ req' = [req EXCEPT ![c] = Tail(@)]
    /\ UNCHANGED <<mode, dataVars, host_process, ctorVars, whVars, threadVars, handlerVars,
                   cb_req, cb_resp, np_dispatch_closed, midiVars, callVars>>

\* The same for a plugin that calls the host while it handles a request and
\* waits for the reply: the response is written once no callback of the plugin
\* waits for its reply.
WHHandleAfterCallbacks(c) ==
    /\ ~cb_waiting
    /\ WHHandle(c)

\* WH answers a parameter request with a response of the wrong shape.
WHHandleWrong ==
    /\ Alive /\ WHServing
    /\ req["parameters"] # <<>>
    /\ resp' = [resp EXCEPT !["parameters"] =
                    Append(@, WHWrongParameterResult(Head(req["parameters"])))]
    /\ wh_params' = WHSetParameter(Head(req["parameters"]))
    /\ req' = [req EXCEPT !["parameters"] = Tail(@)]
    /\ UNCHANGED <<mode, dataVars, host_process, ctorVars, whVars, threadVars, handlerVars,
                   cb_req, cb_resp, np_dispatch_closed, midiVars, callVars>>

\* The plugin calls the host: WH writes the event on its host-callback socket
\* and waits for the reply. MIDI batches are numbered in the order WH sends them.
WHCallback(opcode) ==
    /\ Alive /\ wh = "running" /\ wh_conn /\ ~wh_callback_closed
    /\ NotDialed = {}
    /\ ~cb_waiting
    /\ cb_waiting' = TRUE
    /\ IF opcode = "audioMasterProcessEvents"
       THEN /\ next_batch < MaxBatches
            /\ next_batch' = next_batch + 1
            /\ cb_req' = Append(cb_req, [opcode |-> opcode, batch |-> next_batch + 1])
       ELSE /\ cb_req' = Append(cb_req, [opcode |-> opcode, batch |-> 0])
            /\ UNCHANGED next_batch
    /\ UNCHANGED <<mode, dataVars, host_process, ctorVars, wh, wh_requested, wh_dialed, backlog,
                   wh_init_sent, wh_params, wh_conn, threadVars, handlerVars, req, resp, cb_resp,
                   np_dispatch_closed, midiVars, callVars>>

\* WH reads the reply to its host callback.
WHReadReply ==
    /\ Alive /\ wh = "running" /\ wh_conn /\ ~wh_callback_closed
    /\ cb_resp # <<>>
    /\ cb_resp' = Tail(cb_resp)
    /\ cb_waiting' = FALSE
    /\ UNCHANGED <<mode, dataVars, host_process, ctorVars, wh, wh_requested, wh_dialed, backlog,
                   wh_init_sent, wh_params, wh_conn, next_batch, threadVars, handlerVars, req,
                   resp, cb_req, np_dispatch_closed, midiVars, callVars>>

\* WH closes its end of the host-callback socket and nothing else, once the
\* plugin is loaded: it sends no further callback and reads no reply.
WHCloseCallback ==
    /\ Alive /\ WHServing /\ ctor = "done"
    /\ ~wh_callback_closed
    /\ wh_callback_closed' = TRUE
    /\ cb_waiting' = FALSE
    /\ UNCHANGED <<mode, convVars, processVars, messageVars, groupVars, host_process,
                   ctorVars, wh, wh_requested, wh_dialed, backlog, wh_init_sent, wh_conn,
                   next_batch, wh_params, threadVars, handlerVars, chanVars,
                   midiVars, callVars>>

\* A group host sees its dispatch socket closed, unloads the plugin and closes
\* the plugin's other sockets. The process goes on for the group's other plugins.
WHRelease ==
    /\ Alive /\ wh = "running" /\ wh_conn
    /\ np_dispatch_closed
    /\ wh_conn' = FALSE
    /\ cb_waiting' = FALSE
    /\ req' = [c \in RequestChannels |-> <<>>]
    /\ cb_resp' = <<>>
    /\ UNCHANGED <<mode, dataVars, host_process, ctorVars, wh, wh_requested, wh_dialed, backlog,
                   wh_init_sent, wh_params, next_batch, threadVars, handlerVars, resp, cb_req,
                   np_dispatch_closed, midiVars, callVars>>

\* ------------------------------------------- DispatchDataConverter, payloads

\* The opcodes whose data the converter treats differently, and one that stands
\* for those it leaves to DefaultDataConverter.
ConverterOpcodes ==
    {"effOpen", "effEditGetRect", "effGetChunk", "effSetChunk", "effProcessEvents",
     "effGetProgramName", "effSetSpeakerArrangement", "effGetSpeakerArrangement",
     "effOther"}

SpeakerOpcodes == {"effSetSpeakerArrangement", "effGetSpeakerArrangement"}

\* The opcodes read() answers with WantsString{}, whatever the host's buffer
\* holds.
StringOpcodes ==
    {"effGetProgramName", "effGetParamLabel", "effGetParamDisplay",
     "effGetParamName", "effGetProgramNameIndexed", "effGetEffectName",
     "effGetVendorString", "effGetProductString", "effShellGetNextPlugin"}

\* The opcodes whose data is a struct the host may have filled in, and the
\* type of that struct.
StructOpcodes ==
    {"effGetInputProperties", "effGetOutputProperties", "effGetParameterProperties",
     "effGetMidiKeyName"}

StructType(opcode) ==
    CASE opcode \in {"effGetInputProperties", "effGetOutputProperties"} ->
             "VstIOProperties"
      [] opcode = "effGetParameterProperties" -> "VstParameterProperties"
      [] opcode = "effGetMidiKeyName" -> "VstMidiKeyName"

\* Every opcode with a case of its own in read(), and two without one.
ReadOpcodes ==
    {"effOpen", "effEditGetRect", "effEditOpen", "effGetChunk", "effSetChunk",
     "effProcessEvents", "effOther", "effClose"}
        \cup SpeakerOpcodes \cup StringOpcodes \cup StructOpcodes

\* The index and option arguments of a call.
Arguments == 0 .. MaxArgument

\* Speaker arrangements: the speakers, each one of two kinds. The C struct
\* (VstSpeakerArrangement) is a header with the number of channels followed by
\* that many speakers; memory is a sequence of bytes.
Speakers(n) == [1..n -> {1, 2}]

Arrangements == UNION {Speakers(n) : n \in 0..MaxSpeakers}

\* DynamicSpeakerArrangement(const VstSpeakerArrangement&): the header's count
\* and that many speakers after it.
DynamicSpeakerArrangement(memory) ==
    Payload("DynamicSpeakerArrangement", SubSeq(memory, 2, 1 + memory[1]))

\* DynamicSpeakerArrangement::as_raw_data(): the C struct again, header and tail.
as_raw_data(arrangement) == <<Len(arrangement.speakers)>> \o arrangement.speakers

\* std::copy(object.begin(), object.end(), output)
copy(object, output) ==
    [k \in 1..Len(output) |-> IF k <= Len(object) THEN object[k] ELSE output[k]]

\* What the host has under a pointer to a speaker arrangement: a struct with
\* room for MaxSpeakers speakers, holding some arrangement, zeroed after it.
HostArrangements ==
    {copy(as_raw_data(Payload("DynamicSpeakerArrangement", a)),
          [k \in 1..(1 + MaxSpeakers) |-> 0]) : a \in Arrangements}

\* What the host passes as data and as value with an opcode.
HostMemory(opcode) == IF opcode \in SpeakerOpcodes THEN HostArrangements ELSE {<<>>}

\* Chunks: the plugin's state as bytes, each one of two values. A payload that
\* is a std::vector<uint8_t> holds its bytes.
Chunks == UNION {[1..n -> {1, 2}] : n \in 0..MaxChunk}

ChunkPayload(bytes) == [kind |-> "vector<uint8_t>", bytes |-> bytes]

\* The editor's rectangles a plugin reports, and the payload that holds one.
Rects == {<<0, 0, h, 2 * h>> : h \in 1..MaxRect}

RectPayload(rect) == [kind |-> "VstRect", rect |-> rect]

\* What the host passes as data with an opcode: for effSetChunk some bytes of
\* its own or the buffer effGetChunk pointed it to, for effGetChunk a pointer
\* not yet set.
HostData(opcode) ==
    CASE opcode = "effSetChunk" -> Chunks \cup {d_chunk}
      [] opcode = "effGetChunk" -> {<<"nullptr">>}
      [] opcode = "effEditGetRect" -> {<<"nullptr">>, <<"editor_rectangle">>}
      [] opcode = "effEditOpen" -> {<<1>>, <<2>>}
      [] opcode = "effProcessEvents" -> Chunks
      [] opcode \in StructOpcodes -> {<<0>>, <<1>>}
      [] opcode \in StringOpcodes -> {<<0, 0>>, <<1, 0>>}
      [] opcode = "effOther" -> {<<>>, <<1, 0>>}
      [] OTHER -> HostMemory(opcode)

\* What the host passes as value: for effSetChunk the number of bytes of the
\* chunk, which may be fewer than data has room for.
HostValue(opcode, data) ==
    IF opcode = "effSetChunk" THEN 0..Len(data) ELSE HostMemory(opcode)

\* std::vector<uint8_t>(chunk_data, chunk_data + value)
vector(chunk_data, value) == SubSeq(chunk_data, 1, value)

\* The payloads that hold a window handle, a batch of MIDI events, a struct of
\* the host's and a string.
HandlePayload(handle) == [kind |-> "size_t", handle |-> handle]

DynamicVstEvents(events) == [kind |-> "DynamicVstEvents", events |-> events]

StructPayload(opcode, struct) == [kind |-> StructType(opcode), struct |-> struct]

StringPayload(str) == [kind |-> "string", string |-> str]

\* The characters of a C string: those before its first null byte.
c_str(data) ==
    SubSeq(data, 1,
           (CHOOSE k \in 1..Len(data) :
                data[k] = 0 /\ \A j \in 1..(k - 1) : data[j] # 0) - 1)

\* DefaultDataConverter::read(): no data gives no payload, any other data is
\* taken to be a C string.
DefaultDataConverter_read(opcode, index, value, data) ==
    IF data = <<>> THEN Payload("nullptr", <<>>) ELSE StringPayload(c_str(data))

\* DispatchDataConverter::read(): the payload made from the data pointer.
read_by_default(opcode, index, value, data) ==
    DefaultDataConverter_read(opcode, index, value, data)

read(opcode, index, value, data) ==
    CASE opcode = "effOpen" -> Payload("WantsAEffectUpdate", <<>>)
      [] opcode = "effEditGetRect" -> Payload("WantsVstRect", <<>>)
      [] opcode = "effEditOpen" -> HandlePayload(data[1])
      [] opcode = "effGetChunk" -> Payload("WantsChunkBuffer", <<>>)
      [] opcode = "effSetChunk" -> ChunkPayload(vector(data, value))
      [] opcode = "effProcessEvents" -> DynamicVstEvents(data)
      [] opcode \in StructOpcodes -> StructPayload(opcode, data)
      [] opcode \in SpeakerOpcodes -> DynamicSpeakerArrangement(data)
      [] opcode \in StringOpcodes -> Payload("WantsString", <<>>)
      [] OTHER -> DefaultDataConverter_read(opcode, index, value, data)

\* DispatchDataConverter::read_value(): the optional payload made from the
\* value argument. DefaultDataConverter::read_value() gives none.
read_value_get_only(opcode, value) ==
    IF opcode = "effGetSpeakerArrangement"
    THEN <<DynamicSpeakerArrangement(value)>>
    ELSE <<>>

read_value(opcode, value) ==
    IF opcode \in SpeakerOpcodes
    THEN <<DynamicSpeakerArrangement(value)>>
    ELSE <<>>

\* std::holds_alternative<std::nullptr_t>(response.payload) in the case of
\* effEditGetRect.
holds_nullptr(payload) == payload.kind = "nullptr"

\* DispatchDataConverter::write(): for effGetSpeakerArrangement the arrangement
\* of response.payload is copied to the data pointer, for effGetChunk and
\* effEditGetRect the data pointer is made to point to the bridge's copy.
write(opcode, data, response) ==
    CASE opcode = "effGetSpeakerArrangement" ->
             copy(as_raw_data(response.payload), data)
      [] opcode = "effGetChunk" -> <<"chunk_data">>
      [] opcode = "effEditGetRect" ->
             IF holds_nullptr(response.payload) THEN data ELSE <<"editor_rectangle">>
      [] OTHER -> data

\* DispatchDataConverter::write(), effEditGetRect: rect = new_rect, unless the
\* plugin has not written anything.
write_rect_kept(opcode, rect, response) == rect

write_rect(opcode, rect, response) ==
    IF opcode = "effEditGetRect" /\ ~holds_nullptr(response.payload)
    THEN response.payload.rect
    ELSE rect

\* chunk.assign(buffer.begin(), buffer.end())
assign_appended(chunk, buffer) == chunk \o buffer

assign(chunk, buffer) == buffer

\* DispatchDataConverter::write(), effGetChunk: the bytes of response.payload
\* go to chunk_data, and the data pointer is made to point there.
write_chunk(opcode, chunk, response) ==
    IF opcode = "effGetChunk" THEN assign(chunk, response.payload.bytes) ELSE chunk

\* DispatchDataConverter::write_value(), effGetSpeakerArrangement: the
\* arrangement std::get<DynamicSpeakerArrangement>(response.payload) is copied
\* to the value pointer.
write_value(opcode, value, response) ==
    IF opcode = "effGetSpeakerArrangement"
    THEN copy(as_raw_data(response.payload), value)
    ELSE value

\* The variables of the bridge proper, which the converter does not touch.
pluginBridgeVars ==
    <<mode, ctor, entry, notified, host_process, listener, endpoint_file, wh,
      wh_requested, wh_dialed, backlog, sock, finished_accepting_sockets, probe,
      group_host_connect_handler, wine_io_handler, io_stopped, plugin,
      host_callback_handler, h_event, h_resp, h_called, wh_init_sent, wh_conn,
      wh_params, np_dispatch_closed, req, resp, cb_req, cb_resp, cb_waiting,
      next_batch, lock, incoming_midi_events, midi_enqueued, delivered, pc, call,
      freed, wh_callback_closed>>

\* What a call of the converter leaves alone besides.
bridgeVars == <<pluginBridgeVars, groupVars, d_chunk, processVars, messageVars>>

\* The host calls dispatch(opcode, index, value, data, option).
dispatch_call(opcode, index, value, data, option) ==
    /\ d_pc = "none"
    /\ d_pc' = "called"
    /\ d_opcode' = opcode
    /\ d_index' = index
    /\ d_data' = data
    /\ d_value' = value
    /\ d_option' = option
    /\ UNCHANGED <<bridgeVars, d_event, d_response, d_rect>>

\* The same for the opcodes that take neither index nor option.
ConverterCall(opcode, data, value) == dispatch_call(opcode, 0, value, data, 0)

\* send_event() builds the Event: payload from converter.read(), value_payload
\* from converter.read_value().
ConverterRead ==
    /\ d_pc = "called"
    /\ d_pc' = "sent"
    /\ d_event' = [payload |-> read(d_opcode, d_index, d_value, d_data),
                   value_payload |-> read_value(d_opcode, d_value)]
    /\ UNCHANGED <<bridgeVars, d_opcode, d_index, d_data, d_value, d_option,
                   d_response, d_rect>>

\* WH's EventResult: for effGetSpeakerArrangement the plugin's output
\* arrangement as payload and its input arrangement as value_payload.
WHEventResult(opcode, output, input) ==
    CASE opcode = "effGetSpeakerArrangement" ->
             [payload |-> Payload("DynamicSpeakerArrangement", output),
              value_payload |-> <<Payload("DynamicSpeakerArrangement", input)>>]
      [] opcode = "effGetChunk" ->
             [payload |-> ChunkPayload(output), value_payload |-> <<>>]
      [] opcode = "effEditGetRect" /\ output # <<>> ->
             [payload |-> RectPayload(output), value_payload |-> <<>>]
      [] OTHER -> NoPayloads

\* What WH's plugin may answer with: arrangements, or the bytes of its chunk.
WHResults(opcode) ==
    CASE opcode = "effGetSpeakerArrangement" -> Arrangements \X Arrangements
      [] opcode = "effGetChunk" -> Chunks \X {<<>>}
      [] opcode = "effEditGetRect" -> ({<<>>} \cup Rects) \X {<<>>}
      [] OTHER -> {<<(<<>>), (<<>>)>>}

ConverterRespond ==
    /\ d_pc = "sent"
    /\ d_pc' = "received"
    /\ \E result \in WHResults(d_opcode) :
          d_response' = WHEventResult(d_opcode, result[1], result[2])
    /\ UNCHANGED <<bridgeVars, d_opcode, d_index, d_data, d_value, d_option,
                   d_event, d_rect>>

\* send_event() writes the response back: converter.write() and
\* converter.write_value().
ConverterWrite ==
    /\ d_pc = "received"
    /\ d_pc' = "written"
    /\ d_data' = write(d_opcode, d_data, d_response)
    /\ d_value' = write_value(d_opcode, d_value, d_response)
    /\ d_chunk' = write_chunk(d_opcode, d_chunk, d_response)
    /\ d_rect' = write_rect(d_opcode, d_rect, d_response)
    /\ UNCHANGED <<pluginBridgeVars, groupVars, processVars, messageVars, d_opcode,
                   d_index, d_option, d_event, d_response>>

\* dispatch() returns; the bridge keeps chunk_data.
ConverterReturn ==
    /\ d_pc = "written"
    /\ d_pc' = "none"
    /\ d_opcode' = "none"
    /\ d_index' = 0
    /\ d_data' = <<>>
    /\ d_value' = <<>>
    /\ d_option' = 0
    /\ d_event' = NoPayloads
    /\ d_response' = NoPayloads
    /\ UNCHANGED <<bridgeVars, d_rect>>

\* ------------------------------------------- process_replacing(), the data

\* Planes of n samples, each sample one of two values, and arrays of planes.
Planes(n) == [1..n -> {1, 2}]

PlaneArrays(n) == UNION {[1..k -> Planes(n)] : k \in 0..MaxPlanes}

\* The end of the range std::copy reads from an input plane:
\* inputs[channel] + sample_frames + 1.
CopyEnd(sample_frames) == sample_frames + 1

\* std::vector<float>(sample_frames) filled by std::copy from the host's plane:
\* the vector keeps its size; what is copied past its end lands outside it.
input_buffer(plane, sample_frames) ==
    [k \in 1..sample_frames |-> plane[k]]

\* process_replacing(), up to write_object(): the host passes numInputs input
\* planes and numOutputs output planes of sample_frames samples. Each input
\* plane is copied into a vector of sample_frames samples. A copy that runs
\* past the host's plane and past the vector is undefined: the call goes on
\* with the memory behind the vector overwritten, or the process crashes.
process_copy_inputs(sample_frames, inputs, outputs) ==
    /\ a_pc = "none"
    /\ a_frames' = sample_frames
    /\ a_inputs' = inputs
    /\ a_outputs' = outputs
    /\ a_copied' = IF inputs = <<>> THEN 0 ELSE CopyEnd(sample_frames)
    /\ \/ /\ a_pc' = "written"
          /\ a_request' =
                 AudioBuffers([c \in 1..Len(inputs) |->
                                  input_buffer(inputs[c], sample_frames)],
                              sample_frames)
       \/ /\ inputs # <<>> /\ CopyEnd(sample_frames) > sample_frames
          /\ a_pc' = "crashed"
          /\ UNCHANGED a_request
    /\ UNCHANGED <<pluginBridgeVars, groupVars, convVars, messageVars, a_response>>

\* WH's AudioBuffers response: some number of planes of the block's size.
process_respond(buffers) ==
    /\ a_pc = "written"
    /\ a_pc' = "received"
    /\ a_response' = AudioBuffers(buffers, a_frames)
    /\ UNCHANGED <<pluginBridgeVars, groupVars, convVars, messageVars, a_frames, a_inputs,
                   a_outputs, a_copied, a_request>>

\* assert(response.buffers.size() == plugin.numOutputs), and the copy of each
\* of the numOutputs planes to the host. A failed assertion ends the process;
\* a build with NDEBUG has no assertion: it copies the planes the response has
\* and reads past the response for those it has not, which is undefined and
\* may crash.
process_copy_outputs ==
    /\ a_pc = "received"
    /\ \/ /\ Len(a_response.buffers) >= Len(a_outputs)
          /\ a_outputs' = [c \in 1..Len(a_outputs) |-> a_response.buffers[c]]
          /\ a_pc' = "done"
       \/ /\ Len(a_response.buffers) # Len(a_outputs)
          /\ a_pc' = "crashed"
          /\ UNCHANGED a_outputs
    /\ UNCHANGED <<pluginBridgeVars, groupVars, convVars, messageVars, a_frames, a_inputs,
                   a_copied, a_request, a_response>>

\* ------------------------------------------- the CLAP messages, serialized

\* The steps of a serialize() function: s.value4b(f), s.value8b(f),
\* s.value1b(f), s.text1b(f, maxSize), s.text1b(f), s.object(f), s.ext(f,
\* InPlaceOptional, text1b or object), s.container(f, maxSize, text1b) and
\* s.container(f, maxSize) of objects.
\* A maximum is <<n>>, or <<>> where the call passes none.
value4b(field) == [step |-> "value", field |-> field, size |-> 4]

value8b(field) == [step |-> "value", field |-> field, size |-> 8]

value1b(field) == [step |-> "bool", field |-> field]

text1b(field, maxSize) == [step |-> "text", field |-> field, maxSize |-> maxSize]

object(field, type) == [step |-> "object", field |-> field, type |-> type]

ext_text1b(field, maxSize) ==
    [step |-> "optional_text", field |-> field, maxSize |-> maxSize]

ext_object(field, type) ==
    [step |-> "optional_object", field |-> field, type |-> type]

container_text1b(field, maxSize, textSize) ==
    [step |-> "texts", field |-> field, maxSize |-> maxSize, textSize |-> textSize]

container_object(field, maxSize, type) ==
    [step |-> "objects", field |-> field, maxSize |-> maxSize, type |-> type]

\* AudioPortInfo::serialize: text1b(port_type) passes no maximum.
AudioPortInfo_without_flags ==
    << value4b("id"), text1b("name", <<MaxTextSize>>),
       value4b("channel_count"), text1b("port_type", <<>>),
       value4b("in_place_pair") >>

AudioPortInfo ==
    << value4b("id"), text1b("name", <<MaxTextSize>>), value4b("flags"),
       value4b("channel_count"), text1b("port_type", <<>>),
       value4b("in_place_pair") >>

Count == << value8b("instance_id"), value1b("is_input") >>

GetResponse == << ext_object("result", "AudioPortInfo") >>

Get == << value8b("instance_id"), value4b("index"), value1b("is_input") >>

IsRescanFlagSupported == << value8b("owner_instance_id"), value4b("flag") >>

Rescan == << value8b("owner_instance_id"), value4b("flags") >>

clap_version_t == << value4b("major"), value4b("minor"), value4b("revision") >>

Descriptor ==
    << object("clap_version", "clap_version_t"),
       text1b("id", <<MaxTextSize>>), text1b("name", <<MaxTextSize>>),
       ext_text1b("vendor", <<MaxTextSize>>), ext_text1b("url", <<MaxTextSize>>),
       ext_text1b("manual_url", <<MaxTextSize>>),
       ext_text1b("support_url", <<MaxTextSize>>),
       ext_text1b("version", <<MaxTextSize>>),
       ext_text1b("description", <<MaxTextSize>>),
       container_text1b("features", <<MaxTextSize>>, <<MaxTextSize>>) >>

SupportedPluginExtensions == << >>

SupportedHostExtensions == << value1b("supports_audio_ports") >>

InitResponse ==
    << value1b("result"),
       object("supported_plugin_extensions", "SupportedPluginExtensions") >>

Init_message ==
    << value8b("instance_id"),
       object("supported_host_extensions", "SupportedHostExtensions") >>

Destroy == << value8b("instance_id") >>

\* serialize(S& s, PhysicalUIMap map) and YaPhysicalUIMapList::serialize. The
\* container's maximum, 1 << 31, is beyond every list here.
PhysicalUIMap == << value4b("physicalUITypeID"), value4b("noteExpressionTypeID") >>

YaPhysicalUIMapList == << container_object("maps_", <<>>, "PhysicalUIMap") >>

\* The types whose serialize() takes the object by value: the deserializer's
\* reads land in a copy, and the object itself stays as it was.
ByValue == {"PhysicalUIMap"}

MessageTypes ==
    {"AudioPortInfo", "Count", "GetResponse", "Get", "IsRescanFlagSupported",
     "Rescan", "Descriptor", "InitResponse", "Init", "Destroy"}

\* The serialize() function of a type.
serialize(type) ==
    CASE type = "AudioPortInfo" -> AudioPortInfo
      [] type = "Count" -> Count
      [] type = "GetResponse" -> GetResponse
      [] type = "Get" -> Get
      [] type = "IsRescanFlagSupported" -> IsRescanFlagSupported
      [] type = "Rescan" -> Rescan
      [] type = "clap_version_t" -> clap_version_t
      [] type = "Descriptor" -> Descriptor
      [] type = "SupportedPluginExtensions" -> SupportedPluginExtensions
      [] type = "SupportedHostExtensions" -> SupportedHostExtensions
      [] type = "InitResponse" -> InitResponse
      [] type = "Init" -> Init_message
      [] type = "Destroy" -> Destroy
      [] type = "PhysicalUIMap" -> PhysicalUIMap
      [] type = "YaPhysicalUIMapList" -> YaPhysicalUIMapList

\* The bytes of a fixed-width value and of a length prefix.
Bytes(size, value) == << [size |-> size, value |-> value] >>

\* A string's bytes: the length and each character.
write_text(str) ==
    Bytes(4, Len(str)) \o [k \in 1..Len(str) |-> [size |-> 1, value |-> str[k]]]

RECURSIVE write_texts(_)
write_texts(strs) ==
    IF strs = <<>> THEN <<>> ELSE write_text(Head(strs)) \o write_texts(Tail(strs))

\* The serializer: the bytes of an object, step by step of its serialize().
RECURSIVE write_steps(_, _)
RECURSIVE write_objects(_, _)
write_step(step, value) ==
    CASE step.step = "value" -> Bytes(step.size, value)
      [] step.step = "bool" -> Bytes(1, IF value THEN 1 ELSE 0)
      [] step.step = "text" -> write_text(value)
      [] step.step = "object" -> write_steps(serialize(step.type), value)
      [] step.step = "optional_text" ->
            IF value = <<>> THEN Bytes(1, 0)
            ELSE Bytes(1, 1) \o write_text(value[1])
      [] step.step = "optional_object" ->
            IF value = <<>> THEN Bytes(1, 0)
            ELSE Bytes(1, 1) \o write_steps(serialize(step.type), value[1])
      [] step.step = "texts" -> Bytes(4, Len(value)) \o write_texts(value)
      [] step.step = "objects" ->
            Bytes(4, Len(value)) \o write_objects(step.type, value)

write_steps(steps, obj) ==
    IF steps = <<>> THEN <<>>
    ELSE write_step(Head(steps), obj[Head(steps).field])
             \o write_steps(Tail(steps), obj)

write_objects(type, objs) ==
    IF objs = <<>> THEN <<>>
    ELSE write_steps(serialize(type), Head(objs)) \o write_objects(type, Tail(objs))

\* The default-constructed object of a type, before deserialization.
RECURSIVE Default(_)
DefaultField(step) ==
    CASE step.step = "value" -> 0
      [] step.step = "bool" -> FALSE
      [] step.step = "object" -> Default(step.type)
      [] OTHER -> <<>>

Default(type) ==
    LET steps == serialize(type) IN
    [f \in {steps[k].field : k \in 1..Len(steps)} |->
        DefaultField(CHOOSE st \in {steps[k] : k \in 1..Len(steps)} : st.field = f)]

\* The deserializer's reads. Each returns a Reader whose object is the value.
Failed(error) == Reader(FALSE, error, <<>>, <<>>)

read_bytes(bytes, size) ==
    IF bytes = <<>> \/ Head(bytes).size # size THEN Failed("CodecTruncated")
    ELSE Reader(TRUE, "none", Head(bytes).value, Tail(bytes))

\* A text: the length, checked against the maximum where one is given, and
\* that many characters.
read_text(bytes, maxSize) ==
    LET length == read_bytes(bytes, 4) IN
    IF ~length.ok THEN length
    ELSE IF maxSize # <<>> /\ length.object > maxSize[1]
    THEN Failed("CodecOverflow")
    ELSE IF Len(length.bytes) < length.object
              \/ \E k \in 1..length.object : length.bytes[k].size # 1
    THEN Failed("CodecTruncated")
    ELSE Reader(TRUE, "none",
                [k \in 1..length.object |-> length.bytes[k].value],
                SubSeq(length.bytes, length.object + 1, Len(length.bytes)))

RECURSIVE read_texts(_, _, _)
read_texts(bytes, count, textSize) ==
    IF count = 0 THEN Reader(TRUE, "none", <<>>, bytes)
    ELSE LET first == read_text(bytes, textSize) IN
         IF ~first.ok THEN first
         ELSE LET others == read_texts(first.bytes, count - 1, textSize) IN
              IF ~others.ok THEN others
              ELSE Reader(TRUE, "none", <<first.object>> \o others.object,
                          others.bytes)

RECURSIVE read_steps(_, _)
read_type(type, bytes) ==
    read_steps(serialize(type), Reader(TRUE, "none", Default(type), bytes))

\* An element of a container: resize() has value-initialized it, and
\* serialize() is called with it. Where serialize() takes it by value the bytes
\* are consumed and the element is left as resize() made it.
read_element(type, bytes) ==
    LET element == read_type(type, bytes) IN
    IF element.ok /\ type \in ByValue
    THEN Reader(TRUE, "none", Default(type), element.bytes)
    ELSE element

RECURSIVE read_objects(_, _, _)
read_objects(bytes, count, type) ==
    IF count = 0 THEN Reader(TRUE, "none", <<>>, bytes)
    ELSE LET first == read_element(type, bytes) IN
         IF ~first.ok THEN first
         ELSE LET others == read_objects(first.bytes, count - 1, type) IN
              IF ~others.ok THEN others
              ELSE Reader(TRUE, "none", <<first.object>> \o others.object,
                          others.bytes)

read_optional(flag, content) ==
    IF ~flag.ok THEN flag
    ELSE IF flag.object = 0 THEN Reader(TRUE, "none", <<>>, flag.bytes)
    ELSE IF ~content.ok THEN content
    ELSE Reader(TRUE, "none", <<content.object>>, content.bytes)

read_step(step, bytes) ==
    CASE step.step = "value" -> read_bytes(bytes, step.size)
      [] step.step = "bool" ->
            LET byte == read_bytes(bytes, 1) IN
            IF ~byte.ok THEN byte
            ELSE Reader(TRUE, "none", byte.object # 0, byte.bytes)
      [] step.step = "text" -> read_text(bytes, step.maxSize)
      [] step.step = "object" -> read_type(step.type, bytes)
      [] step.step = "optional_text" ->
            LET flag == read_bytes(bytes, 1) IN
            read_optional(flag, read_text(flag.bytes, step.maxSize))
      [] step.step = "optional_object" ->
            LET flag == read_bytes(bytes, 1) IN
            read_optional(flag, read_type(step.type, flag.bytes))
      [] step.step = "texts" ->
            LET count == read_bytes(bytes, 4) IN
            IF ~count.ok THEN count
            ELSE IF step.maxSize # <<>> /\ count.object > step.maxSize[1]
            THEN Failed("CodecOverflow")
            ELSE read_texts(count.bytes, count.object, step.textSize)
      [] step.step = "objects" ->
            LET count == read_bytes(bytes, 4) IN
            IF ~count.ok THEN count
            ELSE IF step.maxSize # <<>> /\ count.object > step.maxSize[1]
            THEN Failed("CodecOverflow")
            ELSE read_objects(count.bytes, count.object, step.type)

\* The deserializer: the steps of serialize() fill the object in turn.
read_steps(steps, reader) ==
    IF steps = <<>> \/ ~reader.ok THEN reader
    ELSE LET field == read_step(Head(steps), reader.bytes) IN
         IF ~field.ok THEN field
         ELSE read_steps(Tail(steps),
                         Reader(TRUE, "none",
                                [reader.object EXCEPT ![Head(steps).field] =
                                     field.object],
                                field.bytes))

\* Strings: the short ones, one of the maximum size and one beyond it.
Fill(n) == [k \in 1..n |-> 97]

ShortTexts == UNION {[1..n -> {97, 98}] : n \in 0..MaxText}

Texts == ShortTexts \cup {Fill(MaxTextSize), Fill(MaxTextSize + 1)}

Optional(values) == {<<>>} \cup {<<v>> : v \in values}

\* The objects of each type that the sender serializes.
AudioPortInfos ==
    {[id |-> 7, name |-> name, flags |-> 3, channel_count |-> 2,
      port_type |-> port_type, in_place_pair |-> 9] :
         name \in Texts, port_type \in Texts}

BaseDescriptor ==
    [clap_version |-> [major |-> 1, minor |-> 2, revision |-> 3],
     id |-> <<97, 98>>, name |-> <<98>>, vendor |-> <<>>, url |-> <<>>,
     manual_url |-> <<>>, support_url |-> <<>>, version |-> <<>>,
     description |-> <<>>, features |-> <<>>]

Descriptors ==
    {[BaseDescriptor EXCEPT ![field] = str] :
         field \in {"id", "name"}, str \in Texts}
    \cup {[BaseDescriptor EXCEPT ![field] = <<str>>] :
             field \in {"vendor", "url", "manual_url", "support_url", "version",
                        "description"},
             str \in Texts}
    \cup {[BaseDescriptor EXCEPT !.features = strs] :
             strs \in {<<a>> : a \in Texts} \cup {<<a, b>> : a, b \in ShortTexts}}

\* PhysicalUIMapLists as the plugin hands them back: each map with the
\* physical UI the host asked about and the note expression the plugin chose.
PhysicalUIMaps == [physicalUITypeID : {0, 1, 2}, noteExpressionTypeID : {0, 1, 3}]

MapLists == UNION {[1..n -> PhysicalUIMaps] : n \in 0..MaxMaps}

\* The list the host passed: the physical UIs, with no note expression yet
\* (kInvalidTypeID, all bits set).
HostList(maps) ==
    [k \in 1..Len(maps) |-> [maps[k] EXCEPT !.noteExpressionTypeID = -1]]

\* YaPhysicalUIMapList::write_back(): the noteExpressionTypeID of each of maps_
\* goes to the map of the host's list at the same place.
write_back(maps, list) ==
    [k \in 1..Len(list) |->
        IF k <= Len(maps)
        THEN [list[k] EXCEPT !.noteExpressionTypeID = maps[k].noteExpressionTypeID]
        ELSE list[k]]

Objects(type) ==
    CASE type = "AudioPortInfo" -> AudioPortInfos
      [] type = "Count" ->
            {[instance_id |-> 5, is_input |-> b] : b \in BOOLEAN}
      [] type = "GetResponse" -> {[result |-> r] : r \in Optional(AudioPortInfos)}
      [] type = "Get" ->
            {[instance_id |-> 5, index |-> i, is_input |-> b] :
                 i \in {0, 1}, b \in BOOLEAN}
      [] type = "IsRescanFlagSupported" ->
            {[owner_instance_id |-> 5, flag |-> f] : f \in {1, 2}}
      [] type = "Rescan" ->
            {[owner_instance_id |-> 5, flags |-> f] : f \in {1, 3}}
      [] type = "Descriptor" -> Descriptors
      [] type = "InitResponse" ->
            {[result |-> b, supported_plugin_extensions |-> <<>>] : b \in BOOLEAN}
      [] type = "Init" ->
            {[instance_id |-> 5,
              supported_host_extensions |-> [supports_audio_ports |-> b]] :
                 b \in BOOLEAN}
      [] type = "Destroy" -> {[instance_id |-> i] : i \in {5, 6}}
      [] type = "YaPhysicalUIMapList" -> {[maps_ |-> maps] : maps \in MapLists}

\* The sender serializes an object of a message type onto the socket.
write_message(type, obj) ==
    /\ m_pc = "none"
    /\ m_pc' = "written"
    /\ m_type' = type
    /\ m_object' = obj
    /\ m_bytes' = write_steps(serialize(type), obj)
    /\ UNCHANGED <<pluginBridgeVars, groupVars, convVars, processVars, m_result,
                   m_list>>

\* The receiver deserializes the bytes as the same type.
read_message ==
    /\ m_pc = "written"
    /\ m_pc' = "read"
    /\ m_result' = read_type(m_type, m_bytes)
    /\ UNCHANGED <<pluginBridgeVars, groupVars, convVars, processVars, m_type, m_object,
                   m_bytes, m_list>>

\* The receiver of a YaPhysicalUIMapList writes it back to the list the host
\* passed.
write_back_message ==
    /\ m_pc = "read" /\ m_type = "YaPhysicalUIMapList" /\ m_result.ok
    /\ m_pc' = "written_back"
    /\ m_list' = write_back(m_result.object.maps_, HostList(m_object.maps_))
    /\ UNCHANGED <<pluginBridgeVars, groupVars, convVars, processVars, m_type, m_object,
                   m_bytes, m_result>>

\* The next message.
next_message ==
    /\ m_pc \in {"read", "written_back"}
    /\ m_pc' = "none"
    /\ m_type' = "none"
    /\ m_object' = <<>>
    /\ m_bytes' = <<>>
    /\ m_result' = NoResult
    /\ m_list' = <<>>
    /\ UNCHANGED <<pluginBridgeVars, groupVars, convVars, processVars>>

\* ------------------------------------------- launch_vst_host(), plugin groups

\* The process that listens on the group's socket, if there is one.
GroupListeners == {p \in GroupProcesses : group_process[p] = "listening"}

\* kill(pid, 0) == 0 and vst_host.running(): the process exists.
ProcessRuns(p) == p \in GroupProcesses /\ group_process[p] \in {"starting", "listening"}

\* A group host started for an earlier plugin of the group is running when
\* this instance is created.
GroupHostRunning ==
    /\ Alive /\ mode = "group" /\ ctor = "init"
    /\ \A p \in GroupProcesses : group_process[p] = "none"
    /\ group_process' = [group_process EXCEPT !["existing"] = "listening"]
    /\ UNCHANGED <<pluginBridgeVars, convVars, processVars, messageVars,
                   vst_host_pid, group_answered, group_accepted>>

\* Another plugin instance of the same group starts a group host process of
\* its own at the time this one does.
GroupRivalStarts ==
    /\ Alive /\ mode = "group" /\ ctor \in {"launch", "accept"}
    /\ group_process["existing"] = "none"
    /\ group_process["rival"] = "none"
    /\ GroupListeners = {}
    /\ group_process' = [group_process EXCEPT !["rival"] = "starting"]
    /\ UNCHANGED <<pluginBridgeVars, convVars, processVars, messageVars,
                   vst_host_pid, group_answered, group_accepted>>

\* A started group host process reaches the group's socket: the first one
\* listens on it, one that finds it taken terminates gracefully.
GroupProcessStarted(p) ==
    /\ Alive /\ group_process[p] = "starting"
    /\ group_process' = [group_process EXCEPT ![p] =
                             IF GroupListeners = {} THEN "listening" ELSE "exited"]
    /\ UNCHANGED <<pluginBridgeVars, convVars, processVars, messageVars,
                   vst_host_pid, group_answered, group_accepted>>

\* A group host process exits or crashes.
GroupProcessExits(p) ==
    /\ Alive /\ ProcessRuns(p)
    /\ group_process' = [group_process EXCEPT ![p] = "exited"]
    /\ UNCHANGED <<pluginBridgeVars, convVars, processVars, messageVars,
                   vst_host_pid, group_answered, group_accepted>>

\* group_socket.connect(); write_object(GroupRequest{plugin_path, socket_path});
\* read_object<GroupResponse>(); vst_host_pid = response.pid
GroupRequest(p) ==
    /\ group_answered' = Append(group_answered, p)
    /\ vst_host_pid' = p

\* The condition of the connect thread's loop: vst_host.running().
KeepsTrying == ProcessRuns("child")

\* launch_vst_host() in a plugin group: ask the process that listens on the
\* group's socket; when the connection fails start a group host process, take
\* its PID and leave the request to group_host_connect_handler. The constructor
\* then starts the io thread and the liveness probe.
launch_group_host ==
    /\ Alive /\ mode = "group" /\ ctor = "launch"
    /\ IF GroupListeners # {}
       THEN /\ \E p \in GroupListeners : GroupRequest(p)
            /\ UNCHANGED <<group_process, group_host_connect_handler>>
       ELSE /\ group_process' = [group_process EXCEPT !["child"] = "starting"]
            /\ vst_host_pid' = "child"
            /\ group_host_connect_handler' = "loop"
            /\ UNCHANGED group_answered
    /\ wine_io_handler' = "running"
    /\ probe' = "check_finished"
    /\ ctor' = "accept"
    /\ UNCHANGED <<mode, convVars, processVars, messageVars, wh_callback_closed,
                   group_accepted, entry, notified, host_process, listener,
                   endpoint_file, sock, finished_accepting_sockets, plugin, whVars,
                   wh_params, io_stopped, handlerVars, chanVars, midiVars, callVars>>

\* One round of group_host_connect_handler's loop: leave it when the process
\* this instance started does not run; else try the request, and return when it
\* was answered. A round in which nothing listens changes nothing.
group_host_connect ==
    /\ Alive /\ group_host_connect_handler = "loop"
    /\ IF ~KeepsTrying
       THEN /\ group_host_connect_handler' = "exited"
            /\ UNCHANGED <<vst_host_pid, group_answered>>
       ELSE /\ \E p \in GroupListeners : GroupRequest(p)
            /\ group_host_connect_handler' = "exited"
    /\ UNCHANGED <<mode, convVars, processVars, messageVars, wh_callback_closed,
                   group_process, group_accepted, host_process, ctorVars, whVars,
                   wh_params, probe, wine_io_handler, io_stopped, handlerVars,
                   chanVars, midiVars, callVars>>

\* The group host that answered hosts the plugin and dials the endpoint; the
\* constructor accepts its sockets one after another.
GroupAccept ==
    /\ Alive /\ mode = "group" /\ ctor = "accept"
    /\ group_answered # <<>>
    /\ group_process[group_answered[Len(group_answered)]] = "listening"
    /\ group_accepted < Len(AcceptOrder)
    /\ group_accepted' = group_accepted + 1
    /\ UNCHANGED <<pluginBridgeVars, convVars, processVars, messageVars,
                   group_process, vst_host_pid, group_answered>>

\* finished_accepting_sockets = true, after the fifth accept.
GroupFinishAccepting ==
    /\ Alive /\ mode = "group" /\ ctor = "accept"
    /\ group_accepted = Len(AcceptOrder)
    /\ finished_accepting_sockets' = TRUE
    /\ ctor' = "cleanup"
    /\ UNCHANGED <<mode, dataVars, entry, notified, host_process, listener,
                   endpoint_file, sock, plugin, whVars, wh_params, threadVars,
                   handlerVars, chanVars, midiVars, callVars>>

\* The liveness probe in a plugin group, second half of an iteration:
\* kill(vst_host_pid, 0) != 0 ends the process, else sleep for a second.
GroupProbeCheckRunning ==
    /\ Alive /\ mode = "group" /\ probe = "check_running"
    /\ IF ~ProcessRuns(vst_host_pid)
       THEN ProbeFailure
       ELSE /\ probe' = "check_finished"
            /\ UNCHANGED <<mode, dataVars, host_process, ctorVars, whVars, wh_params,
                           group_host_connect_handler, wine_io_handler, io_stopped,
                           handlerVars, chanVars, midiVars, callVars>>

\* ------------------------------------------------------- specifications

Construction ==
    \/ CreateEndpoint
    \/ launch_vst_host
    \/ GroupConnect
    \/ ProbeCheckFinished
    \/ ProbeCheckRunning
    \/ Accept
    \/ FinishAccepting
    \/ CloseAcceptor
    \/ SpawnHandler
    \/ ReadInit
    \/ ReadInitFails
    \/ WHSendInit
    \/ WHExit
    \/ IoExit

Next ==
    \/ Construction
    \/ WHDialInOrder
    \/ \E t \in HostThreads, op \in DispatchOpcodes \ {"effCanDo"} : dispatch(t, op)
    \/ \E t \in HostThreads : send_event_read(t)
    \/ \E t \in HostThreads, op \in {"get_parameter", "set_parameter"} :
          parameter_write(t, op, 0, 0)
    \/ \E t \in HostThreads : parameter_read(t)
    \/ \E t \in HostThreads : audio_write(t)
    \/ \E t \in HostThreads : audio_read(t)
    \/ \E t \in HostThreads : midi_lock(t)
    \/ \E t \in HostThreads : midi_deliver(t)
    \/ \E t \in HostThreads : HostReturn(t)
    \/ \E t \in HostThreads : HostUncaught(t)
    \/ \E t \in HostThreads : close_terminate(t)
    \/ \E t \in HostThreads : close_stop(t)
    \/ \E t \in HostThreads : close_join(t)
    \/ \E t \in HostThreads : close_delete(t)
    \/ \E t \in HostThreads : UseAfterFree(t)
    \/ HandlerRecv
    \/ HandlerLock
    \/ HandlerPush
    \/ HandlerCall
    \/ HandlerReply
    \/ \E c \in RequestChannels : WHHandle(c)
    \/ \E opcode \in HostCallbackOpcodes : WHCallback(opcode)
    \/ WHReadReply
    \/ WHRelease

Spec == Init /\ [][Next]_vars

\* The same, with process_replacing called by the host's audio thread only.
NextAudioThread ==
    \/ Construction
    \/ WHDialInOrder
    \/ \E t \in HostThreads, op \in DispatchOpcodes \ {"effCanDo"} : dispatch(t, op)
    \/ \E t \in HostThreads : send_event_read(t)
    \/ \E t \in HostThreads, op \in {"get_parameter", "set_parameter"} :
          parameter_write(t, op, 0, 0)
    \/ \E t \in HostThreads : parameter_read(t)
    \/ audio_write("audio")
    \/ \E t \in HostThreads : audio_read(t)
    \/ \E t \in HostThreads : midi_lock(t)
    \/ \E t \in HostThreads : midi_deliver(t)
    \/ \E t \in HostThreads : HostReturn(t)
    \/ \E t \in HostThreads : HostUncaught(t)
    \/ \E t \in HostThreads : close_terminate(t)
    \/ \E t \in HostThreads : close_stop(t)
    \/ \E t \in HostThreads : close_join(t)
    \/ \E t \in HostThreads : close_delete(t)
    \/ \E t \in HostThreads : UseAfterFree(t)
    \/ HandlerRecv
    \/ HandlerLock
    \/ HandlerPush
    \/ HandlerCall
    \/ HandlerReply
    \/ \E c \in RequestChannels : WHHandle(c)
    \/ \E opcode \in HostCallbackOpcodes : WHCallback(opcode)
    \/ WHReadReply
    \/ WHRelease

SpecAudioThread == Init /\ [][NextAudioThread]_vars

\* The same, with the audio thread calling process and processReplacing in
\* any order.
NextEntry ==
    \/ Construction
    \/ WHDialInOrder
    \/ \E t \in HostThreads, op \in DispatchOpcodes \ {"effCanDo"} : dispatch(t, op)
    \/ \E t \in HostThreads : send_event_read(t)
    \/ \E t \in HostThreads, op \in {"get_parameter", "set_parameter"} :
          parameter_write(t, op, 0, 0)
    \/ \E t \in HostThreads : parameter_read(t)
    \/ process_proxy("audio")
    \/ process_replacing_proxy("audio")
    \/ \E t \in HostThreads : audio_read(t)
    \/ \E t \in HostThreads : midi_lock(t)
    \/ \E t \in HostThreads : midi_deliver(t)
    \/ \E t \in HostThreads : HostReturn(t)
    \/ \E t \in HostThreads : HostUncaught(t)
    \/ \E t \in HostThreads : close_terminate(t)
    \/ \E t \in HostThreads : close_stop(t)
    \/ \E t \in HostThreads : close_join(t)
    \/ \E t \in HostThreads : close_delete(t)
    \/ \E t \in HostThreads : UseAfterFree(t)
    \/ HandlerRecv
    \/ HandlerLock
    \/ HandlerPush
    \/ HandlerCall
    \/ HandlerReply
    \/ \E c \in RequestChannels : WHHandle(c)
    \/ \E opcode \in HostCallbackOpcodes : WHCallback(opcode)
    \/ WHReadReply
    \/ WHRelease

SpecEntry == Init /\ [][NextEntry]_vars

\* A WH that may close the host-callback socket alone, with the host's calls
\* on each of the other sockets.
NextCallbackClosed ==
    \/ Construction
    \/ WHDialInOrder
    \/ \E t \in HostThreads, op \in {"effOpen", "effOther", "effClose"} :
          dispatch(t, op)
    \/ \E t \in HostThreads : send_event_read(t)
    \/ \E t \in HostThreads : parameter_write(t, "get_parameter", 0, 0)
    \/ \E t \in HostThreads : parameter_read(t)
    \/ audio_write("audio")
    \/ \E t \in HostThreads : audio_read(t)
    \/ \E t \in HostThreads : midi_lock(t)
    \/ \E t \in HostThreads : midi_deliver(t)
    \/ \E t \in HostThreads : HostReturn(t)
    \/ \E t \in HostThreads : HostUncaught(t)
    \/ \E t \in HostThreads : close_terminate(t)
    \/ \E t \in HostThreads : close_stop(t)
    \/ \E t \in HostThreads : close_join(t)
    \/ \E t \in HostThreads : close_delete(t)
    \/ \E t \in HostThreads : UseAfterFree(t)
    \/ HandlerRecv
    \/ HandlerLock
    \/ HandlerPush
    \/ HandlerCall
    \/ HandlerReply
    \/ \E c \in RequestChannels : WHHandle(c)
    \/ \E opcode \in HostCallbackOpcodes : WHCallback(opcode)
    \/ WHReadReply
    \/ WHRelease
    \/ WHCloseCallback

SpecCallbackClosed == Init /\ [][NextCallbackClosed]_vars

NextDial ==
    \/ Construction
    \/ WHDialAnyOrder
    \/ WHDialExtra

SpecDial == Init /\ [][NextDial]_vars

\* The start of a plugin of a plugin group: the group host processes, the
\* request, the probe, and the accepts from the process that answered.
NextGroup ==
    \/ CreateEndpoint
    \/ GroupHostRunning
    \/ GroupRivalStarts
    \/ \E p \in GroupProcesses : GroupProcessStarted(p)
    \/ \E p \in GroupProcesses : GroupProcessExits(p)
    \/ launch_group_host
    \/ group_host_connect
    \/ GroupAccept
    \/ GroupFinishAccepting
    \/ ProbeCheckFinished
    \/ GroupProbeCheckRunning

SpecGroup == Init /\ [][NextGroup]_vars

\* The parameter calls with their indices and values, after effOpen, against a
\* WH that answers every request and may answer with the wrong shape.
NextParam ==
    \/ Construction
    \/ WHDialInOrder
    \/ \E t \in HostThreads : dispatch(t, "effOpen")
    \/ \E t \in HostThreads : send_event_read(t)
    \/ \E t \in HostThreads, op \in {"get_parameter", "set_parameter"},
          index \in ParamIndices, value \in ParamValues :
          parameter_write(t, op, index, value)
    \/ \E t \in HostThreads : parameter_read(t)
    \/ \E t \in HostThreads : HostReturn(t)
    \/ \E t \in HostThreads : HostUncaught(t)
    \/ \E c \in {"dispatch", "parameters"} : WHHandle(c)
    \/ WHHandleWrong

SpecParam == Init /\ [][NextParam]_vars

\* The converter of dispatch() on its own: one call with its opcode and the
\* host's memory, the event made from it, WH's result, and the write-back.
NextConverter ==
    \/ \E opcode \in ConverterOpcodes :
          \E data \in HostData(opcode) :
              \E value \in HostValue(opcode, data) : ConverterCall(opcode, data, value)
    \/ ConverterRead
    \/ ConverterRespond
    \/ ConverterWrite

SpecConverter == Init /\ [][NextConverter]_vars

\* The converter over a sequence of calls of the opcodes that have to do with
\* chunk_data, and one that has not.
NextChunk ==
    \/ \E opcode \in {"effGetChunk", "effSetChunk", "effOther"} :
          \E data \in HostData(opcode) :
              \E value \in HostValue(opcode, data) : ConverterCall(opcode, data, value)
    \/ ConverterRead
    \/ ConverterRespond
    \/ ConverterWrite
    \/ ConverterReturn

SpecChunk == Init /\ [][NextChunk]_vars

\* The event dispatch() makes, for every opcode the converter knows and every
\* index and option.
NextRead ==
    \/ \E opcode \in ReadOpcodes, index \in Arguments, option \in Arguments :
          \E data \in HostData(opcode) :
              \E value \in HostValue(opcode, data) :
                  dispatch_call(opcode, index, value, data, option)
    \/ ConverterRead

SpecRead == Init /\ [][NextRead]_vars

\* Calls of effEditGetRect one after another, with one other opcode among them.
NextRect ==
    \/ \E opcode \in {"effEditGetRect", "effOther"} :
          \E data \in HostData(opcode) :
              \E value \in HostValue(opcode, data) : ConverterCall(opcode, data, value)
    \/ ConverterRead
    \/ ConverterRespond
    \/ ConverterWrite
    \/ ConverterReturn

SpecRect == Init /\ [][NextRect]_vars

\* One call of process_replacing() with its data.
NextProcess ==
    \/ \E sample_frames \in 0..MaxFrames :
          \E inputs, outputs \in PlaneArrays(sample_frames) :
              process_copy_inputs(sample_frames, inputs, outputs)
    \/ \E buffers \in PlaneArrays(a_frames) : process_respond(buffers)
    \/ process_copy_outputs

SpecProcess == Init /\ [][NextProcess]_vars

\* Messages of every type, serialized and deserialized one after another.
NextMessage ==
    \/ \E type \in MessageTypes : \E obj \in Objects(type) :
          write_message(type, obj)
    \/ read_message
    \/ next_message

SpecMessage == Init /\ [][NextMessage]_vars

\* PhysicalUIMapLists on their way back from the plugin to the host's list.
NextMapList ==
    \/ \E obj \in Objects("YaPhysicalUIMapList") :
          write_message("YaPhysicalUIMapList", obj)
    \/ read_message
    \/ write_back_message
    \/ next_message

SpecMapList == Init /\ [][NextMapList]_vars

\* The dispatcher with all its opcodes, called after and during the plugin's
\* initialization, with the host callbacks that go straight to the host.
NextDispatch ==
    \/ Construction
    \/ WHDialInOrder
    \/ \E t \in HostThreads, op \in DispatchOpcodes : dispatch(t, op)
    \/ \E t \in HostThreads, op \in DispatchOpcodes : dispatch_early(t, op)
    \/ \E t \in HostThreads : send_event_read(t)
    \/ \E t \in HostThreads : HostReturn(t)
    \/ \E t \in HostThreads : HostUncaught(t)
    \/ \E t \in HostThreads : close_terminate(t)
    \/ \E t \in HostThreads : close_stop(t)
    \/ \E t \in HostThreads : close_join(t)
    \/ \E t \in HostThreads : close_delete(t)
    \/ HandlerRecv
    \/ HandlerCall
    \/ HandlerReply
    \/ \E c \in {"dispatch", "dispatch_midi"} : WHHandle(c)
    \/ WHCallback("audioMasterOther")
    \/ WHReadReply
    \/ WHRelease

SpecDispatch == Init /\ [][NextDispatch]_vars

\* The calls the claims about progress are about: dispatch with an opcode that
\* goes to WH on the dispatch socket, effClose among them, and
\* process_replacing with the MIDI batches it hands to the host.
NextProgress ==
    \/ Construction
    \/ WHDialInOrder
    \/ \E t \in HostThreads, op \in {"effOpen", "effOther", "effClose"} : dispatch(t, op)
    \/ \E t \in HostThreads : send_event_read(t)
    \/ \E t \in HostThreads : audio_write(t)
    \/ \E t \in HostThreads : audio_read(t)
    \/ \E t \in HostThreads : midi_lock(t)
    \/ \E t \in HostThreads : midi_deliver(t)
    \/ \E t \in HostThreads : HostReturn(t)
    \/ \E t \in HostThreads : HostUncaught(t)
    \/ \E t \in HostThreads : close_terminate(t)
    \/ \E t \in HostThreads : close_stop(t)
    \/ \E t \in HostThreads : close_join(t)
    \/ \E t \in HostThreads : close_delete(t)
    \/ \E t \in HostThreads : UseAfterFree(t)
    \/ HandlerRecv
    \/ HandlerLock
    \/ HandlerPush
    \/ HandlerReply
    \/ \E c \in {"dispatch", "audio"} : WHHandle(c)
    \/ WHCallback("audioMasterProcessEvents")
    \/ WHReadReply
    \/ WHRelease

\* What the scheduler and WH are taken to guarantee when a claim is about
\* progress: a thread of the bridge that can take its next step, or can again
\* and again (a mutex that is free from time to time, a socket that has data
\* from time to time), takes it; WH answers the requests it has got, reads the
\* replies to its callbacks and releases a plugin whose dispatch socket was
\* closed. Nothing is assumed about when the host calls, when the plugin calls
\* back, or whether WH stays alive.
ThreadStep(t) ==
    \/ send_event_read(t)
    \/ audio_read(t)
    \/ midi_lock(t)
    \/ midi_deliver(t)
    \/ close_terminate(t)
    \/ close_stop(t)
    \/ close_join(t)
    \/ close_delete(t)

HandlerStep ==
    \/ HandlerRecv
    \/ HandlerLock
    \/ HandlerPush
    \/ HandlerReply

Fairness ==
    /\ \A t \in HostThreads : SF_vars(ThreadStep(t))
    /\ SF_vars(HandlerStep)
    /\ WF_vars(IoExit)
    /\ \A c \in {"dispatch", "audio"} : WF_vars(WHHandle(c))
    /\ WF_vars(WHReadReply)
    /\ WF_vars(WHRelease)

SpecFair == Init /\ [][NextProgress]_vars /\ Fairness

\* The GUI thread dispatches and the audio thread processes while the plugin
\* calls the host from within its handling of the requests: WH answers no
\* request while one of the plugin's callbacks waits for its reply.
NextCallback ==
    \/ Construction
    \/ WHDialInOrder
    \/ \E op \in {"effOpen", "effOther", "effProcessEvents"} : dispatch("gui", op)
    \/ \E t \in HostThreads : send_event_read(t)
    \/ process_replacing_proxy("audio")
    \/ \E t \in HostThreads : audio_read(t)
    \/ \E t \in HostThreads : midi_lock(t)
    \/ \E t \in HostThreads : midi_deliver(t)
    \/ \E t \in HostThreads : HostReturn(t)
    \/ \E t \in HostThreads : HostUncaught(t)
    \/ HandlerRecv
    \/ HandlerLock
    \/ HandlerPush
    \/ HandlerCall
    \/ HandlerReply
    \/ \E c \in {"dispatch", "dispatch_midi", "audio"} : WHHandleAfterCallbacks(c)
    \/ \E opcode \in HostCallbackOpcodes : WHCallback(opcode)
    \/ WHReadReply

\* As Fairness, with the host's callback returning; the plugin's handling of a
\* request ends, so that WH's answer, which is held up again and again by a
\* callback, comes.
FairnessCallback ==
    /\ \A t \in HostThreads : SF_vars(ThreadStep(t))
    /\ SF_vars(HandlerStep \/ HandlerCall)
    /\ \A c \in {"dispatch", "dispatch_midi", "audio"} :
          SF_vars(WHHandleAfterCallbacks(c))
    /\ WF_vars(WHReadReply)

SpecCallback == Init /\ [][NextCallback]_vars /\ FairnessCallback

\* Construction against a WH whose plugin calls the host while it is loaded and
\* waits for each reply before it goes on. The probe and the constructor run,
\* the handler thread runs and the host answers its callback, WH reads the
\* replies, and the plugin's initialization ends: WH sends the AEffect at one
\* of the moments at which it waits for no reply.
NextInit ==
    \/ Construction
    \/ WHDialInOrder
    \/ \E opcode \in HostCallbackOpcodes : WHCallback(opcode)
    \/ HandlerRecv
    \/ HandlerLock
    \/ HandlerPush
    \/ HandlerCall
    \/ HandlerReply
    \/ WHReadReply

FairnessInit ==
    /\ WF_vars(ProbeCheckFinished)
    /\ WF_vars(ProbeCheckRunning)
    /\ WF_vars(ReadInit)
    /\ SF_vars(HandlerStep \/ HandlerCall)
    /\ WF_vars(WHReadReply)
    /\ SF_vars(WHSendInit)

SpecInit == Init /\ [][NextInit]_vars /\ FairnessInit

\* ------------------------------------------------------------ the lifecycle

\* The bridge's lifecycle, read off the bridge's state: the endpoint exists
\* (Accepting), finished_accepting_sockets is set (Running), effClose is being
\* handled (Closing), the bridge was deleted, was never constructed or went
\* down with its process (Dead).
lifecycle ==
    IF host_process = "terminated" \/ freed \/ ctor = "threw" THEN "Dead"
    ELSE IF \E t \in HostThreads : call[t].op = "effClose" /\ pc[t] # "done"
         THEN "Closing"
    ELSE IF finished_accepting_sockets THEN "Running"
    ELSE IF listener = "open" THEN "Accepting"
    ELSE "Init"

\* ------------------------------------------------------------------ claims

\* The channels that carry one request at a time.
LockedChannels == {"dispatch", "dispatch_midi", "parameters"}

\* The threads that have written a request on channel c and not yet read its
\* response.
InFlight(c) ==
    {t \in HostThreads :
        \/ pc[t] = "send_event_read" /\ DispatchChannel(call[t].op) = c
        \/ pc[t] = "parameter_read" /\ c = "parameters"}

\* The requests and responses of host calls that are on channel c.
Pending(c) ==
    Len(req[c]) + Cardinality({i \in 1..Len(resp[c]) : resp[c][i].for # "ctor"})

\* C1: on each of the dispatch, dispatch_midi and parameters channels at most
\* one request is in flight, whatever calls of the host overlap: at most one
\* thread is between its write and its read, at most one message of a host call
\* is on the channel, and that message belongs to the thread in flight.
C1_OneInFlight ==
    \A c \in LockedChannels :
        /\ Cardinality(InFlight(c)) <= 1
        /\ Pending(c) <= Cardinality(InFlight(c))
        /\ \A i \in 1..Len(req[c]) : req[c][i].from \in InFlight(c)
        /\ \A i \in 1..Len(resp[c]) :
              resp[c][i].for # "ctor" => resp[c][i].for \in InFlight(c)

\* Two calls overlap: one thread waits for the response to a parameter request
\* that WH has not read yet, the other for the response to a dispatch request.
C1_Witness ==
    /\ pc["gui"] = "parameter_read" /\ Len(req["parameters"]) = 1
    /\ pc["audio"] = "send_event_read" /\ call["audio"].op = "effOther"
    /\ Len(resp["dispatch"]) = 1

\* s is an initial part of q.
IsPrefix(s, q) ==
    /\ Len(s) <= Len(q)
    /\ \A i \in 1..Len(s) : s[i] = q[i]

\* C2: the step with which process_replacing returns leaves the MIDI queue
\* empty, and by then every batch the handler has enqueued has been passed to
\* the host's callback; at every step the batches passed to the host are an
\* initial part of the batches enqueued, so none is lost, repeated or out of
\* order over any number of blocks.
C2_QueueDrained ==
    [][/\ IsPrefix(delivered', midi_enqueued')
       /\ \A t \in HostThreads :
             (pc[t] = "midi_deliver" /\ pc'[t] = "done")
                 => /\ incoming_midi_events' = <<>>
                    /\ delivered' = midi_enqueued']_vars

\* A block has returned after it passed two batches to the host.
C2_Witness ==
    \E t \in HostThreads :
        /\ pc[t] = "done" /\ call[t].op = "process_replacing" /\ ~call[t].threw
        /\ call[t].i = 3
        /\ delivered = <<1, 2>>
        /\ incoming_midi_events = <<>>

\* C3: an audioMasterProcessEvents event is appended to the queue while the
\* handler holds incoming_midi_events_mutex and is answered with 1 without a
\* call of the host's callback; any other event is answered with what the
\* host's callback returned for it.
C3_HandlerReplies ==
    Alive =>
    /\ host_callback_handler = "push" =>
          /\ lock["incoming_midi_events_mutex"] = "handler"
          /\ h_event.opcode = "audioMasterProcessEvents"
    /\ host_callback_handler = "call" => h_event.opcode # "audioMasterProcessEvents"
    /\ host_callback_handler = "reply" =>
          IF h_event.opcode = "audioMasterProcessEvents"
          THEN /\ h_resp = 1
               /\ h_called = -1
               /\ midi_enqueued # <<>>
               /\ midi_enqueued[Len(midi_enqueued)] = h_event.batch
          ELSE /\ h_called \in ReturnValues
               /\ h_resp = h_called
    /\ \A i \in 1..Len(cb_resp) :
          cb_resp[i].opcode = "audioMasterProcessEvents" => cb_resp[i].ret = 1

\* The handler is about to answer the second MIDI batch, which is in the queue
\* behind the first.
C3_Witness ==
    /\ host_callback_handler = "reply"
    /\ h_event.opcode = "audioMasterProcessEvents"
    /\ incoming_midi_events = <<1, 2>>

\* What process_replacing is in between its first and its last step.
InProcess(t) == pc[t] \in {"audio_read", "midi_lock", "midi_deliver"}

C4_Apart ==
    /\ \A m \in {"dispatch_mutex", "dispatch_midi_events_mutex"} :
          lock[m] \in HostThreads =>
              /\ call[lock[m]].op \in DispatchOpcodes
              /\ ~InProcess(lock[m])
    /\ \A c \in {"dispatch", "dispatch_midi"} :
          /\ \A i \in 1..Len(req[c]) : req[c][i].op \in DispatchOpcodes
          /\ \A i \in 1..Len(resp[c]) :
                resp[c][i].for \in HostThreads => ~InProcess(resp[c][i].for)

\* C4: process_replacing takes neither dispatch mutex and puts nothing on and
\* takes nothing from the dispatch sockets, so a dispatch call that waits for WH
\* cannot hold it up; and with WH answering, a thread that waits in
\* process_replacing or in send_event gets on.
C4_AudioNotDelayed ==
    /\ []C4_Apart
    /\ \A t \in HostThreads :
          /\ InProcess(t) ~> ~InProcess(t)
          /\ (pc[t] = "send_event_read") ~> (pc[t] # "send_event_read")

\* A dispatch call holds dispatch_mutex and waits for a response WH has not
\* written, and the other thread's process_replacing has returned.
C4_Witness ==
    /\ pc["gui"] = "send_event_read" /\ lock["dispatch_mutex"] = "gui"
    /\ req["dispatch"] # <<>> /\ resp["dispatch"] = <<>>
    /\ pc["audio"] = "done" /\ call["audio"].op = "process_replacing"
    /\ ~call["audio"].threw

\* The order the specification fixes for the five channels.
FixedOrder == <<"dispatch", "dispatch_midi", "host_callback", "parameters", "audio">>

\* C5: the k-th connection accepted is bound to the k-th channel of dispatch,
\* dispatch_midi, host_callback, parameters, audio; the channels after it are
\* unbound; a sixth connection is never taken from the backlog; and
\* finished_accepting_sockets is set only with five accepted.
C5_AcceptOrder ==
    /\ Accepted <= 5
    /\ Accepted = Len(wh_dialed) - Len(backlog)
    /\ \A k \in 1..5 :
          sock[FixedOrder[k]] = IF k <= Accepted THEN wh_dialed[k] ELSE "none"
    /\ \A c \in Channels : sock[c] # "extra"
    /\ finished_accepting_sockets => Accepted = 5
    /\ listener = "closed" => finished_accepting_sockets

\* Five connections were accepted, dialled in another order than FixedOrder,
\* and the sixth is left in the backlog.
C5_Witness ==
    /\ finished_accepting_sockets
    /\ backlog = <<"extra">>
    /\ wh_dialed[1] = "audio"
    /\ sock["dispatch"] = "audio"

\* C6: when WH has gone before five connections were accepted and the probe has
\* seen it, the host's process is alive, the entry point has returned null and
\* the notification was sent.
C6_StartupFailed ==
    (/\ wh = "exited"
     /\ Accepted < Len(AcceptOrder)
     /\ probe \notin {"check_finished", "check_running"})
        => (Alive /\ entry = "null" /\ notified)

\* WH has dialled its five connections in another order than FixedOrder.
WrongOrder ==
    /\ Len(wh_dialed) >= 5
    /\ \E k \in 1..5 : wh_dialed[k] # FixedOrder[k]

\* C7 as claimed: with the connections dialled in another order NP does not
\* get to Running.
C7_WrongOrderRejected ==
    WrongOrder => ~finished_accepting_sockets

\* C7 as amended: NP does not look at what a connection is for. It binds the
\* k-th connection dialled to the k-th socket it accepts, and up to the end of
\* accepting nothing but the probe finding WH gone ends the construction.
C7_BoundByPosition ==
    /\ \A k \in 1..Accepted : sock[AcceptOrder[k]] = wh_dialed[k]
    /\ (~finished_accepting_sockets /\ wh = "running") =>
          (Alive /\ entry = "pending" /\ ~notified /\ ctor # "threw")

\* NP is Running with WH alive and no socket connected to what WH uses it for.
C7_Witness ==
    /\ finished_accepting_sockets /\ Alive /\ wh = "running"
    /\ WrongOrder
    /\ \A c \in Channels : sock[c] # c

\* The steps of the lifecycle as the specification has them.
ClaimedEdges ==
    {<<"Init", "Accepting">>, <<"Accepting", "Running">>, <<"Running", "Closing">>,
     <<"Closing", "Dead">>, <<"Accepting", "Dead">>}

BeginsClose(t) ==
    /\ pc[t] = "idle" /\ pc'[t] # "idle"
    /\ call'[t].op = "effClose"

C9_CloseIgnoresErrors ==
    \A t \in HostThreads :
        call[t].op = "effClose" =>
            /\ ~call[t].threw
            /\ call[t].failed =>
                  /\ pc[t] \in {"close_terminate", "close_stop", "close_join",
                                "close_delete", "done"}
                  /\ call[t].ret = 0
                  /\ pc[t] = "done" =>
                        /\ freed
                        /\ io_stopped
                        /\ IF mode = "individual"
                           THEN wh = "exited" ELSE np_dispatch_closed
                        /\ host_callback_handler = "exited"
                        /\ wine_io_handler = "exited"

\* A close whose send_event failed has returned, in a plugin group.
C9_Witness ==
    \E t \in HostThreads :
        /\ call[t].op = "effClose" /\ call[t].failed
        /\ pc[t] = "done"
        /\ mode = "group"

\* What has happened to WH at the step of effClose that is meant for it.
WHShutDown == IF mode = "individual" THEN wh = "exited" ELSE np_dispatch_closed

C10_Order ==
    /\ \A t \in HostThreads :
          /\ pc[t] \in {"close_terminate", "close_stop", "close_join", "close_delete"}
                => (call[t].failed \/ call[t].ret \in ReturnValues)
          /\ pc[t] \in {"close_stop", "close_join", "close_delete"} => WHShutDown
          /\ pc[t] \in {"close_join", "close_delete"} => io_stopped
          /\ pc[t] = "close_delete" =>
                /\ host_callback_handler = "exited"
                /\ wine_io_handler = "exited"
                /\ group_host_connect_handler # "loop"
    /\ freed =>
          /\ WHShutDown
          /\ io_stopped
          /\ host_callback_handler = "exited"
          /\ wine_io_handler = "exited"
          /\ group_host_connect_handler # "loop"

C11_KillOnlyIndividual ==
    [][/\ \A t \in HostThreads :
             (pc[t] = "close_terminate" /\ pc'[t] = "close_stop") =>
                 IF mode = "individual"
                 THEN wh' = "exited" /\ ~wh_conn' /\ UNCHANGED np_dispatch_closed
                 ELSE /\ np_dispatch_closed'
                      /\ UNCHANGED <<wh, wh_conn, cb_req, cb_resp>>
                      /\ \A c \in RequestChannels \ {"dispatch"} :
                            req'[c] = req[c] /\ resp'[c] = resp[c]
       /\ np_dispatch_closed' # np_dispatch_closed =>
             /\ mode = "group"
             /\ \E t \in HostThreads : pc[t] = "close_terminate" /\ pc'[t] = "close_stop"
       /\ (mode = "group" /\ wh = "running" /\ wh' # "running") =>
             \A t \in HostThreads : pc'[t] = pc[t]]_vars

\* In a plugin group a close has gone past that step: the group host runs, has
\* its sockets open, and host_vst_dispatch is closed.
C11_Witness ==
    /\ mode = "group"
    /\ \E t \in HostThreads : pc[t] = "close_stop"
    /\ wh = "running" /\ wh_conn
    /\ np_dispatch_closed

\* The constructor has completed its accept step: the five accepts, the
\* finished_accepting_sockets flag, the close of the acceptor and the unlink.
AcceptStepDone == ctor \in {"spawn_handler", "read_init", "done", "threw"}

C13_MismatchFatal ==
    /\ [](\A k \in 1..Len(req["parameters"]) :
              (req["parameters"][k].op = "get_parameter")
                  <=> (req["parameters"][k].value = <<>>))
    /\ [][\A t \in HostThreads :
              (pc[t] = "done" /\ call[t].mismatch) => pc'[t] # "idle"]_vars

\* The parameter of a call that has read its response, as the plugin holds it.
Held(t) == wh_params[call[t].index]

\* C14: the plugin's value of a parameter changes only when WH handles a set
\* on that index, and then to the value of that set; a set that returns leaves
\* the plugin holding its value unless a later set on the index was handled,
\* which cannot be with the caller holding the socket; a get that returns gives
\* the value the plugin holds for its index. So a get on i that follows a set
\* of v on i with no other set on i between returns v, whatever is called on
\* other indices from other threads.
C14_SetThenGet ==
    [][/\ \A i \in ParamIndices :
             wh_params'[i] # wh_params[i] =>
                 /\ req["parameters"] # <<>>
                 /\ Head(req["parameters"]).index = i
                 /\ Head(req["parameters"]).value = <<wh_params'[i]>>
       /\ \A t \in HostThreads :
             (/\ pc[t] = "parameter_read" /\ pc'[t] = "done"
              /\ ~call'[t].threw /\ ~call'[t].mismatch) =>
                 IF call[t].op = "get_parameter"
                 THEN call'[t].ret = Held(t)
                 ELSE <<Held(t)>> = call[t].value]_vars

\* A thread got back from get_parameter(1) the value 1, which is not the
\* plugin's initial value, while the plugin holds another value at index 0.
C14_Witness ==
    \E t \in HostThreads :
        /\ pc[t] = "done" /\ call[t].op = "get_parameter" /\ ~call[t].threw
        /\ call[t].index = 1 /\ call[t].ret = 1
        /\ wh_params[0] # wh_params[1]

\* Thread t starts a call of dispatch() with opcode op in this step.
Begins(t, op) == pc[t] = "idle" /\ pc'[t] # "idle" /\ call'[t].op = op

\* C15: effProcessEvents holds dispatch_midi_events_mutex and has its request on
\* the dispatch_midi socket, and neither starting nor finishing it touches the
\* dispatch socket or dispatch_mutex; every other opcode that is forwarded
\* holds dispatch_mutex and has its request on the dispatch socket.
C15_MidiApart ==
    /\ [](/\ \A t \in HostThreads :
                pc[t] = "send_event_read" =>
                    /\ lock[DispatchMutex(call[t].op)] = t
                    /\ \A m \in Mutexes \ {DispatchMutex(call[t].op)} : lock[m] # t
                    /\ DispatchMutex(call[t].op) =
                           IF call[t].op = "effProcessEvents"
                           THEN "dispatch_midi_events_mutex" ELSE "dispatch_mutex"
          /\ \A k \in 1..Len(req["dispatch_midi"]) :
                req["dispatch_midi"][k].op = "effProcessEvents"
          /\ \A k \in 1..Len(req["dispatch"]) :
                req["dispatch"][k].op \in
                    DispatchOpcodes \ {"effProcessEvents", "effCanDo_hasCockosViewAsConfig"})
    /\ [][\A t \in HostThreads :
              (\/ Begins(t, "effProcessEvents")
               \/ (call[t].op = "effProcessEvents" /\ pc[t] = "send_event_read"
                       /\ pc'[t] = "done")) =>
                  /\ req'["dispatch"] = req["dispatch"]
                  /\ resp'["dispatch"] = resp["dispatch"]
                  /\ lock'["dispatch_mutex"] = lock["dispatch_mutex"]]_vars

\* effProcessEvents has returned WH's value while the other thread waits for
\* the response to an opcode it sent on the dispatch socket.
C15_Witness ==
    \E t, u \in HostThreads :
        /\ pc[t] = "done" /\ call[t].op = "effProcessEvents"
        /\ call[t].ret \in ReturnValues /\ ~call[t].threw
        /\ pc[u] = "send_event_read" /\ call[u].op = "effOther"
        /\ lock["dispatch_mutex"] = u
        /\ resp["dispatch"] = <<>>

\* C16: an initialized plugin answers effCanDo("hasCockosViewAsConfig") with -1
\* in one step that writes on no socket and takes no mutex; any other effCanDo
\* query takes dispatch_mutex and is written on the dispatch socket, or fails
\* on a closed socket.
C16_CockosLocal ==
    [][\A t \in HostThreads :
          /\ (Begins(t, "effCanDo_hasCockosViewAsConfig") /\ ~PreInit) =>
                 /\ pc'[t] = "done"
                 /\ call'[t].ret = -1 /\ ~call'[t].threw
                 /\ UNCHANGED <<req, resp, cb_req, cb_resp, lock>>
          /\ (Begins(t, "effCanDo") /\ ~PreInit) =>
                 \/ /\ pc'[t] = "send_event_read"
                    /\ req'["dispatch"] = Append(req["dispatch"], Request(t, "effCanDo"))
                    /\ lock["dispatch_mutex"] = "free"
                    /\ lock'["dispatch_mutex"] = t
                 \/ /\ Closed("dispatch")
                    /\ call'[t].threw
                    /\ UNCHANGED <<req, lock>>]_vars

\* The query was answered with -1 while the other thread has another effCanDo
\* query under way on the dispatch socket.
C16_Witness ==
    \E t, u \in HostThreads :
        /\ pc[t] = "done" /\ call[t].op = "effCanDo_hasCockosViewAsConfig"
        /\ call[t].ret = -1
        /\ plugin.magic = 1
        /\ pc[u] = "send_event_read" /\ call[u].op = "effCanDo"

\* Everything but the position of the host's threads in their calls.
BridgeState ==
    <<mode, ctor, entry, notified, host_process, listener, endpoint_file, wh,
      wh_requested, wh_dialed, backlog, sock, finished_accepting_sockets, probe,
      group_host_connect_handler, wine_io_handler, io_stopped, plugin,
      host_callback_handler, h_event, h_resp, h_called, wh_init_sent, wh_conn,
      wh_params, np_dispatch_closed, req, resp, cb_req, cb_resp, cb_waiting,
      next_batch, lock, incoming_midi_events, midi_enqueued, delivered, freed>>

\* C17: a call of dispatch() that finds the AEffect struct not yet filled from
\* WH's descriptor (plugin.magic = 0) is over in one step, for every opcode,
\* effClose among them: it returns 0, writes on no socket and changes nothing
\* of the bridge.
C17_EarlyDispatch ==
    [][\A t \in HostThreads, op \in DispatchOpcodes :
          (Begins(t, op) /\ plugin.magic = 0) =>
              /\ pc'[t] = "done"
              /\ call'[t].ret = 0 /\ ~call'[t].threw /\ ~call'[t].failed
              /\ \A u \in HostThreads \ {t} : pc'[u] = pc[u] /\ call'[u] = call[u]
              /\ UNCHANGED BridgeState]_vars

\* effClose came before the constructor has read WH's descriptor and has
\* returned 0; WH runs and its sockets are open.
C17_Witness ==
    \E t \in HostThreads :
        /\ plugin.magic = 0 /\ ctor = "read_init"
        /\ pc[t] = "done" /\ call[t].op = "effClose" /\ call[t].ret = 0
        /\ wh = "running" /\ wh_conn /\ ~np_dispatch_closed

\* C18: the AEffect struct the host sees changes in three places only: when the
\* constructor sets its function pointers, when the constructor applies WH's
\* descriptor, and when the response to effOpen is written back.
C18_PluginFrame ==
    [][plugin' # plugin =>
          \/ ctor = "cleanup" /\ ctor' = "spawn_handler"
          \/ ctor = "read_init" /\ ctor' = "done"
          \/ \E t \in HostThreads :
                /\ pc[t] = "send_event_read" /\ call[t].op = "effOpen"
                /\ pc'[t] = "done" /\ ~call'[t].threw]_vars

\* The response to effOpen was applied, and after it a parameter call, an audio
\* block with a MIDI batch and another opcode have gone by.
C18_Witness ==
    /\ plugin = [ptrs |-> TRUE, magic |-> 1, descriptor |-> 2]
    /\ delivered # <<>>
    /\ \E t, u \in HostThreads :
          /\ pc[t] = "done" /\ call[t].op = "set_parameter"
          /\ pc[u] = "done" /\ call[u].op = "effOther" /\ call[u].ret \in ReturnValues

\* C19: the event dispatch() sends has a value_payload exactly when the opcode
\* is effSetSpeakerArrangement or effGetSpeakerArrangement, and then it is the
\* arrangement under the value pointer.
C19_ValuePayload ==
    d_pc \in {"sent", "received", "written"} =>
        /\ (d_event.value_payload # <<>>) <=> (d_opcode \in SpeakerOpcodes)
        /\ d_opcode \in SpeakerOpcodes =>
              /\ Len(d_event.value_payload) = 1
              /\ d_event.value_payload[1].kind = "DynamicSpeakerArrangement"
              /\ d_pc = "sent" =>
                    as_raw_data(d_event.value_payload[1]) =
                        SubSeq(d_value, 1, 1 + d_value[1])

\* The event of effSetSpeakerArrangement carries the two speakers under the
\* value pointer, which differ from the one under the data pointer.
C19_Witness ==
    /\ d_pc = "sent" /\ d_opcode = "effSetSpeakerArrangement"
    /\ d_event.value_payload = <<Payload("DynamicSpeakerArrangement", <<1, 2>>)>>
    /\ d_event.payload = Payload("DynamicSpeakerArrangement", <<2>>)

\* The bytes at the start of memory that make up the struct an arrangement
\* reconstructs to.
Holds(memory, arrangement) ==
    SubSeq(memory, 1, Len(as_raw_data(arrangement))) = as_raw_data(arrangement)

\* C20: after the response to effGetSpeakerArrangement is written back, the
\* memory under data holds the arrangement of the response's payload and the
\* memory under value holds the arrangement of the response's value_payload,
\* header and tail.
C20_BothArrangements ==
    (d_pc = "written" /\ d_opcode = "effGetSpeakerArrangement") =>
        /\ Holds(d_data, d_response.payload)
        /\ Holds(d_value, d_response.value_payload[1])

\* C21: writing back the response to effGetChunk leaves in chunk_data exactly
\* the bytes of the response and makes the host's pointer refer to chunk_data;
\* the event of effSetChunk carries exactly the first value bytes under data,
\* all of chunk_data when the host passes that buffer and its length; and
\* chunk_data changes only when a response to effGetChunk is written back.
C21_ChunkRoundTrip ==
    /\ []((d_pc = "written" /\ d_opcode = "effGetChunk") =>
              (d_chunk = d_response.payload.bytes /\ d_data = <<"chunk_data">>))
    /\ []((d_pc = "sent" /\ d_opcode = "effSetChunk") =>
              /\ d_event.payload.kind = "vector<uint8_t>"
              /\ Len(d_event.payload.bytes) = d_value
              /\ \A k \in 1..d_value : d_event.payload.bytes[k] = d_data[k]
              /\ (d_data = d_chunk /\ d_value = Len(d_chunk)) =>
                     d_event.payload.bytes = d_chunk)
    /\ [][d_chunk' # d_chunk => (d_pc = "received" /\ d_opcode = "effGetChunk")]_vars

\* After an effGetChunk that gave two different bytes, effSetChunk was called
\* with the buffer and its length, and its event carries the two bytes.
C21_Witness ==
    /\ d_pc = "sent" /\ d_opcode = "effSetChunk"
    /\ d_chunk = <<1, 2>> /\ d_data = d_chunk /\ d_value = 2
    /\ d_event.payload = ChunkPayload(<<1, 2>>)

\* C22: the AudioBuffers request of process_replacing() has one plane per input
\* of exactly sample_frames samples, the first sample_frames samples of the
\* host's plane, and the copy touches no sample past the last of them; the
\* response's planes reach the host's outputs only when there is exactly one
\* per output.
C22_AudioExact ==
    /\ a_pc \in {"written", "received", "done"} =>
          /\ a_copied <= a_frames
          /\ Len(a_request.buffers) = Len(a_inputs)
          /\ a_request.sample_frames = a_frames
          /\ \A c \in 1..Len(a_inputs) : a_request.buffers[c] = a_inputs[c]
    /\ a_pc = "crashed" => Len(a_response.buffers) # Len(a_outputs)
    /\ a_pc = "done" =>
          /\ Len(a_response.buffers) = Len(a_outputs)
          /\ a_outputs = a_response.buffers

\* The strings an object holds, by the steps of its serialize().
RECURSIVE TextsIn(_, _)
StepTexts(step, value) ==
    CASE step.step = "text" -> {value}
      [] step.step \in {"optional_text", "texts"} ->
            {value[k] : k \in 1..Len(value)}
      [] step.step = "object" -> TextsIn(serialize(step.type), value)
      [] step.step = "optional_object" ->
            IF value = <<>> THEN {} ELSE TextsIn(serialize(step.type), value[1])
      [] OTHER -> {}

TextsIn(steps, obj) ==
    IF steps = <<>> THEN {}
    ELSE StepTexts(Head(steps), obj[Head(steps).field])
             \cup TextsIn(Tail(steps), obj)

Overlong == \E str \in TextsIn(serialize(m_type), m_object) : Len(str) > MaxTextSize

\* C23: for every message type, deserializing the serialized bytes of an
\* object whose strings are within the maximum length gives an equal object,
\* optionals absent or present included, and uses up all the bytes.
C23_RoundTrip ==
    (m_pc = "read" /\ ~Overlong) =>
        /\ m_result.ok
        /\ m_result.object = m_object
        /\ m_result.bytes = <<>>

C23_Witness ==
    /\ m_pc = "read" /\ m_type = "GetResponse"
    /\ m_object.result # <<>>
    /\ m_object.result[1].name = Fill(MaxTextSize)
    /\ m_object.result[1].port_type = <<97, 98>>
    /\ m_result.object = m_object

\* C27: a message with a string longer than the maximum is never accepted: the
\* receiver fails with CodecOverflow, whichever string field holds it.
C27_MaximumLength ==
    (m_pc = "read" /\ Overlong) =>
        (~m_result.ok /\ m_result.error = "CodecOverflow")

\* The channel on which thread t waits for a response.
WaitsOn(t) ==
    CASE pc[t] = "send_event_read" -> {DispatchChannel(call[t].op)}
      [] pc[t] = "parameter_read" -> {"parameters"}
      [] pc[t] = "audio_read" -> {ProcessChannel}
      [] OTHER -> {}

\* Thread t takes a response off channel c in this step.
Reads(t, c) ==
    /\ c \in WaitsOn(t)
    /\ pc'[t] # pc[t]
    /\ resp[c] # <<>>
    /\ resp'[c] = Tail(resp[c])

\* C24: on each channel the responses are read in the order of the requests:
\* the response a caller takes off a channel is the one to its own request, and
\* at that moment no earlier request and no other response is left on the
\* channel.
C24_FifoPairing ==
    [][\A t \in HostThreads : \A c \in RequestChannels :
          Reads(t, c) => /\ Head(resp[c]).for = t
                         /\ Len(resp[c]) = 1
                         /\ req[c] = <<>>]_vars

\* One thread's get_parameter has returned and the other thread, whose request
\* followed on the same channel, has its response waiting.
C24_Witness ==
    /\ pc["gui"] = "done" /\ call["gui"].op = "get_parameter" /\ ~call["gui"].threw
    /\ pc["audio"] = "parameter_read"
    /\ Len(resp["parameters"]) = 1 /\ resp["parameters"][1].for = "audio"

\* The host has not begun to close the plugin.
NotClosing == ~freed /\ \A t \in HostThreads : call[t].op # "effClose"

\* C25: when WH closes the host-callback socket of a loaded plugin, the step
\* that ends the handler thread changes nothing else: the process lives, no
\* host call is disturbed and the handler holds no mutex. With that socket
\* closed and the other sockets open the bridge stays Running until the host
\* closes the plugin, and every call the host begins with the thread gone is
\* written on its own socket.
C25_HandlerExitsAlone ==
    /\ [][(host_callback_handler # "exited" /\ host_callback_handler' = "exited"
           /\ wh_conn)
          => /\ wh_callback_closed
             /\ host_process' = host_process /\ Alive
             /\ lifecycle' = lifecycle
             /\ pc' = pc /\ call' = call /\ lock' = lock
             /\ \A m \in Mutexes : lock[m] # "handler"]_vars
    /\ [][(/\ wh_callback_closed /\ wh_conn /\ wh_conn'
            /\ lifecycle = "Running" /\ NotClosing)
          => (lifecycle' \in {"Running", "Closing"} /\ Alive')]_vars
    /\ [][\A t \in HostThreads :
              (/\ host_callback_handler = "exited" /\ wh_conn /\ NotClosing
               /\ pc[t] = "idle" /\ pc'[t] # "idle")
              => /\ pc'[t] \in {"send_event_read", "parameter_read", "audio_read"}
                 /\ \E c \in RequestChannels : Len(req'[c]) = Len(req[c]) + 1]_vars

\* The handler thread has gone because WH closed the host-callback socket, and
\* both host threads wait for WH on other sockets.
C25_Witness ==
    /\ host_callback_handler = "exited" /\ wh_callback_closed /\ wh_conn
    /\ lifecycle = "Running"
    /\ pc["gui"] = "send_event_read" /\ call["gui"].op = "effOther"
    /\ pc["audio"] = "audio_read"
    /\ resp["dispatch"] # <<>>

\* The mutexes that guard a socket.
ChannelMutexes == {"dispatch_mutex", "dispatch_midi_events_mutex", "parameters_mutex"}

\* C26: no mutex is held both across socket I/O and across a call of the
\* host's callback. A socket's mutex is held only by a thread between its write
\* and its read on that socket; incoming_midi_events_mutex is held by the
\* handler only while it appends, not when it reads an event, calls the host
\* or writes the reply, and by a thread in process_replacing only after its
\* read, while it delivers the queue, when it holds no socket's mutex.
C26_NoLockAcrossBoth ==
    /\ \A m \in ChannelMutexes :
          /\ lock[m] # "handler"
          /\ \A t \in HostThreads :
                lock[m] = t =>
                    /\ pc[t] \in {"send_event_read", "parameter_read"}
                    /\ lock["incoming_midi_events_mutex"] # t
    /\ lock["incoming_midi_events_mutex"] = "handler" => host_callback_handler = "push"
    /\ host_callback_handler \in {"recv", "call", "reply", "exited"} =>
          \A m \in Mutexes : lock[m] # "handler"
    /\ \A t \in HostThreads :
          /\ lock["incoming_midi_events_mutex"] = t => pc[t] = "midi_deliver"
          /\ pc[t] \in {"audio_read", "midi_lock", "midi_deliver"} =>
                \A m \in ChannelMutexes : lock[m] # t

\* The handler is about to write the reply to a MIDI batch it has queued, the
\* audio thread delivers the queue to the host under incoming_midi_events_mutex
\* and the other thread holds dispatch_mutex waiting for WH.
C26_Witness ==
    /\ host_callback_handler = "reply"
    /\ h_event.opcode = "audioMasterProcessEvents"
    /\ pc["audio"] = "midi_deliver"
    /\ lock["incoming_midi_events_mutex"] = "audio"
    /\ pc["gui"] = "send_event_read"
    /\ lock["dispatch_mutex"] = "gui"

\* The batches of the queue that a delivery in progress has not passed on yet;
\* the whole queue when none is in progress.
Undelivered ==
    IF \E t \in HostThreads : pc[t] = "midi_deliver"
    THEN LET t == CHOOSE u \in HostThreads : pc[u] = "midi_deliver"
         IN  SubSeq(incoming_midi_events, call[t].i, Len(incoming_midi_events))
    ELSE incoming_midi_events

\* C28: every batch the handler has queued is either already passed to the
\* host or still in the queue, in the order of arrival, however many have
\* gathered; while no process_replacing delivers, the queue only grows, and the
\* delivery that follows passes on all that has gathered.
C28_KeptForNextBlock ==
    /\ [](Alive => delivered \o Undelivered = midi_enqueued)
    /\ [][(Alive' /\ \A t \in HostThreads : pc[t] # "midi_deliver")
          => IsPrefix(incoming_midi_events, incoming_midi_events')]_vars
    /\ [][\A t \in HostThreads :
              (pc[t] = "midi_lock" /\ pc'[t] = "midi_deliver")
              => (call'[t].i = 1 /\ Undelivered' = incoming_midi_events)]_vars

\* After a block that delivered the first batch, the second has arrived and
\* been answered while no thread is in process_replacing.
C28_Witness ==
    /\ delivered = <<1>>
    /\ incoming_midi_events = <<2>>
    /\ host_callback_handler = "recv" /\ cb_resp = <<>>
    /\ \A t \in HostThreads : pc[t] = "idle"

\* What process_replacing is in while it delivers the queue.
Delivering(t) == pc[t] \in {"midi_lock", "midi_deliver"}

\* C29: the host's callback gets a MIDI batch only from a thread in the
\* delivery loop of process_replacing, which holds incoming_midi_events_mutex;
\* a thread enters that part of process_replacing only by reading the response
\* to its block from the audio socket, never while it waits for it; and the
\* handler thread calls the host only with events other than
\* audioMasterProcessEvents.
C29_MidiAfterAudio ==
    /\ [][(delivered' # delivered /\ Alive')
          => \E t \in HostThreads :
                /\ pc[t] = "midi_deliver" /\ call[t].op = "process_replacing"
                /\ lock["incoming_midi_events_mutex"] = t
                /\ call[t].i <= Len(incoming_midi_events)
                /\ delivered' = Append(delivered, incoming_midi_events[call[t].i])
                /\ host_callback_handler' = host_callback_handler]_vars
    /\ [][\A t \in HostThreads :
              (Delivering(t)' /\ ~Delivering(t))
              => /\ pc[t] = "audio_read"
                 /\ resp[ProcessChannel] # <<>>
                 /\ resp'[ProcessChannel] = Tail(resp[ProcessChannel])
                 /\ req'[ProcessChannel] = req[ProcessChannel]]_vars
    /\ [][(h_called' # h_called /\ h_called' # -1)
          => (/\ host_callback_handler = "call"
              /\ h_event.opcode # "audioMasterProcessEvents"
              /\ delivered' = delivered)]_vars

\* A thread in process_replacing has read the response to its block and has
\* passed the first of two queued batches to the host; the handler waits for
\* the next event.
C29_Witness ==
    /\ pc["audio"] = "midi_deliver" /\ call["audio"].i = 2
    /\ incoming_midi_events = <<1, 2>>
    /\ delivered = <<1>>
    /\ resp["audio"] = <<>>
    /\ host_callback_handler = "recv"

\* C30: when the constructor waits for the plugin's AEffect the handler thread
\* has been started, so the callbacks WH's plugin makes while it is loaded are
\* answered, and the constructor gets on: it ends with the plugin struct
\* filled from the AEffect WH sent, unless the Wine process has gone.
C30_InitCompletes ==
    /\ []((Alive /\ ctor = "read_init") => host_callback_handler # "none")
    /\ []((Alive /\ ctor = "done") =>
              (plugin.magic = 1 /\ plugin.descriptor = 1 /\ entry = "plugin"))
    /\ (Alive /\ ctor = "read_init")
           ~> (ctor = "done" \/ wh # "running" \/ ~Alive)

\* The constructor waits for the AEffect, which WH has not sent: WH waits for
\* the reply to a callback of the plugin, and the handler is about to write it.
C30_Witness ==
    /\ ctor = "read_init" /\ ~wh_init_sent
    /\ cb_waiting
    /\ host_callback_handler = "reply" /\ h_called # -1
    /\ resp["dispatch"] = <<>>

\* The payload kinds of the marker payloads and of the copies read() makes.
PayloadKind(opcode) ==
    CASE opcode = "effOpen" -> "WantsAEffectUpdate"
      [] opcode = "effEditGetRect" -> "WantsVstRect"
      [] opcode = "effEditOpen" -> "size_t"
      [] opcode = "effGetChunk" -> "WantsChunkBuffer"
      [] opcode = "effSetChunk" -> "vector<uint8_t>"
      [] opcode = "effProcessEvents" -> "DynamicVstEvents"
      [] opcode \in {"effGetInputProperties", "effGetOutputProperties"} ->
             "VstIOProperties"
      [] opcode = "effGetParameterProperties" -> "VstParameterProperties"
      [] opcode = "effGetMidiKeyName" -> "VstMidiKeyName"
      [] opcode \in {"effSetSpeakerArrangement", "effGetSpeakerArrangement"} ->
             "DynamicSpeakerArrangement"
      [] opcode \in {"effGetProgramName", "effGetParamLabel", "effGetParamDisplay",
                     "effGetParamName", "effGetProgramNameIndexed",
                     "effGetEffectName", "effGetVendorString",
                     "effGetProductString", "effShellGetNextPlugin"} ->
             "WantsString"
      [] OTHER -> "default"

\* C31: the payload of the event dispatch() sends is of the kind the table
\* gives for the opcode, whatever index and option are: markers for effOpen,
\* effEditGetRect, effGetChunk and the opcodes that return a string, the window
\* handle for effEditOpen, the first value bytes under data for effSetChunk,
\* the MIDI events for effProcessEvents, a copy of the host's struct for the
\* properties opcodes and effGetMidiKeyName, the arrangement under data for the
\* speaker opcodes, and what DefaultDataConverter makes for every other opcode.
C31_ReadTable ==
    d_pc = "sent" =>
        LET payload == d_event.payload
            kind == PayloadKind(d_opcode)
        IN  /\ kind # "default" => payload.kind = kind
            /\ kind = "size_t" => payload.handle = d_data[1]
            /\ kind = "vector<uint8_t>" =>
                   /\ Len(payload.bytes) = d_value
                   /\ payload.bytes = SubSeq(d_data, 1, d_value)
            /\ kind = "DynamicVstEvents" => payload.events = d_data
            /\ kind \in {"VstIOProperties", "VstParameterProperties",
                          "VstMidiKeyName"} => payload.struct = d_data
            /\ kind = "DynamicSpeakerArrangement" =>
                   as_raw_data(payload) = SubSeq(d_data, 1, 1 + d_data[1])
            /\ kind = "default" =>
                   payload = DefaultDataConverter_read(d_opcode, d_index, d_value,
                                                       d_data)

\* effGetVendorString was called with an index, an option and a buffer that is
\* not zeroed, and the event asks for a string.
C31_Witness ==
    /\ d_pc = "sent" /\ d_opcode = "effGetVendorString"
    /\ d_index = 1 /\ d_option = 1 /\ d_data = <<1, 0>>
    /\ d_event.payload = Payload("WantsString", <<>>)

\* C35: when the response to effEditGetRect is written back and its payload
\* holds nothing, the pointer under data and the bridge's editor_rectangle stay
\* as they are; when it holds a rectangle, editor_rectangle becomes that
\* rectangle and the pointer under data is made to point to editor_rectangle.
\* No other step changes editor_rectangle.
C35_EditorRect ==
    [][/\ (d_pc = "received" /\ d_pc' = "written" /\ d_opcode = "effEditGetRect") =>
              IF d_response.payload.kind = "nullptr"
              THEN d_data' = d_data /\ d_rect' = d_rect
              ELSE /\ d_response.payload.kind = "VstRect"
                   /\ d_rect' = d_response.payload.rect
                   /\ d_data' = <<"editor_rectangle">>
       /\ d_rect' # d_rect =>
              (d_pc = "received" /\ d_opcode = "effEditGetRect")]_vars

\* A plugin that had reported a rectangle has written nothing this time: the
\* earlier rectangle is kept and the host's pointer is still null.
C35_Witness ==
    /\ d_pc = "written" /\ d_opcode = "effEditGetRect"
    /\ d_response.payload.kind = "nullptr"
    /\ d_rect = <<0, 0, 2, 4>>
    /\ d_data = <<"nullptr">>

\* C32: once finished_accepting_sockets is set the liveness probe does not end
\* the process, whatever the Wine process does afterwards.
C32_ProbeQuietOnceAccepted ==
    finished_accepting_sockets => probe # "terminated"

\* The parts of C33 that are about a run that got its sockets: a group host
\* process is started only by launch_vst_host() when nothing answered its first
\* request; once the sockets are accepted exactly one request was answered and
\* vst_host_pid is the process that answered it.
C33_OneAnswer ==
    /\ [][(group_process["child"] = "none" /\ group_process'["child"] # "none") =>
              (ctor = "launch" /\ GroupListeners = {} /\ group_answered = <<>>)]_vars
    /\ []((mode = "group" /\ finished_accepting_sockets) =>
              (Len(group_answered) = 1 /\ vst_host_pid = group_answered[1]))

\* C33: in a plugin group NP asks the group's socket first, starts a group host
\* process only when that fails, and then repeats the request until one is
\* answered: the connect thread does not give up while a group host process
\* listens on the group's socket, also when that process is not the one this
\* instance started. Once the sockets are accepted exactly one request was
\* answered and the probe's PID is that of the process that answered.
C33_GroupRendezvous ==
    /\ C33_OneAnswer
    /\ [][(group_host_connect_handler = "loop" /\
              group_host_connect_handler' = "exited") =>
              (group_answered' # <<>> \/ GroupListeners = {})]_vars

\* C34: effClose takes its turn on the dispatch socket. Its event is written
\* with dispatch_mutex free and taken by the caller, no other call between its
\* write and its read and nothing of a host call left on the socket; a call in
\* flight leaves its wait only with a response or with the end of its socket;
\* and the shutdown begins with no other call in flight on the dispatch socket
\* and without a change to any other call.
C34_CloseInTurn ==
    [][\A t \in HostThreads :
          /\ (Begins(t, "effClose") /\ pc'[t] = "send_event_read") =>
                 /\ InFlight("dispatch") = {}
                 /\ Pending("dispatch") = 0
                 /\ lock["dispatch_mutex"] = "free"
                 /\ lock'["dispatch_mutex"] = t
          /\ (pc[t] = "send_event_read" /\ pc'[t] # "send_event_read" /\ Alive') =>
                 \/ CanRead(DispatchChannel(call[t].op))
                 \/ ReadFails(DispatchChannel(call[t].op))
          /\ (pc[t] # "close_terminate" /\ pc'[t] = "close_terminate") =>
                 /\ InFlight("dispatch") \ {t} = {}
                 /\ \A u \in HostThreads \ {t} : pc'[u] = pc[u] /\ call'[u] = call[u]]_vars

\* The other thread's request has got its response, effClose has got its own
\* after it, and the shutdown begins with the Wine process still running.
C34_Witness ==
    \E t, u \in HostThreads :
        /\ pc[t] = "close_terminate" /\ call[t].op = "effClose" /\ ~call[t].failed
        /\ call[t].ret \in ReturnValues
        /\ pc[u] = "done" /\ call[u].op = "effOther" /\ call[u].ret \in ReturnValues
        /\ wh = "running" /\ wh_conn

\* C36: a YaPhysicalUIMapList read from the bytes of a list has as many maps
\* as the list and in each map the same physicalUITypeID and the same
\* noteExpressionTypeID; after write_back() the host's list holds the
\* noteExpressionTypeID the plugin chose for each map.
C36_MapListRoundTrip ==
    (m_type = "YaPhysicalUIMapList" /\ m_pc \in {"read", "written_back"}) =>
        /\ m_result.ok
        /\ Len(m_result.object.maps_) = Len(m_object.maps_)
        /\ \A k \in 1..Len(m_object.maps_) :
              m_result.object.maps_[k] = m_object.maps_[k]
        /\ m_pc = "written_back" => m_list = m_object.maps_

\* The AudioRequests and AudioResponses on the audio socket.
AudioInFlight == Len(req["audio"]) + Len(resp["audio"])

IsInitialization(msg) == msg.for = "ctor"

\* C38: a request is written on the dispatch socket only with the constructor
\* past its read of WH's initialization message; until then that message is
\* the only one NP finds on the socket, the constructor is the one that reads
\* it, and no call of the host takes it for its response, however an early
\* call of dispatch() falls among the constructor's steps.
C38_InitializationFirst ==
    /\ [][Len(req'["dispatch"]) > Len(req["dispatch"]) => ctor = "done"]_vars
    /\ [](ctor # "done" =>
            /\ req["dispatch"] = <<>>
            /\ Len(resp["dispatch"]) <= 1
            /\ \A k \in 1..Len(resp["dispatch"]) :
                  IsInitialization(resp["dispatch"][k])
            /\ \A t \in HostThreads : pc[t] \in {"idle", "done"})
    /\ [][(resp["dispatch"] # <<>> /\ IsInitialization(Head(resp["dispatch"]))
           /\ resp'["dispatch"] # resp["dispatch"] /\ Alive')
          => /\ ctor = "read_init" /\ ctor' = "done"
             /\ plugin.magic = 0 /\ plugin'.magic = 1
             /\ pc' = pc /\ call' = call]_vars
    /\ [][\A t \in HostThreads :
             Reads(t, "dispatch") => ~IsInitialization(Head(resp["dispatch"]))]_vars

\* The host's early call of the dispatcher has returned 0 while WH's
\* initialization message waits, unread, on the dispatch socket.
C38_Witness ==
    \E t \in HostThreads :
        /\ ctor = "read_init" /\ plugin.magic = 0
        /\ pc[t] = "done" /\ call[t].op = "effOther" /\ call[t].ret = 0
        /\ req["dispatch"] = <<>>
        /\ Len(resp["dispatch"]) = 1 /\ IsInitialization(resp["dispatch"][1])

\* The probe thread has returned, or was never started.
ProbeReturned == probe \in {"none", "returned"}

\* C39: once effClose has deleted the bridge every thread the bridge started
\* has finished: the host-callback handler, the thread that runs the io
\* context, the thread that connects to the group host and the detached
\* liveness probe; and no step of theirs follows the deletion.
C39_ThreadsGoneBeforeFree ==
    /\ [](freed =>
            /\ host_callback_handler = "exited"
            /\ wine_io_handler = "exited"
            /\ group_host_connect_handler \in {"none", "exited"}
            /\ ProbeReturned)
    /\ [][freed => /\ probe' = probe
                   /\ host_callback_handler' = host_callback_handler
                   /\ wine_io_handler' = wine_io_handler
                   /\ group_host_connect_handler' = group_host_connect_handler]_vars

\* What C39 says of the three threads effClose joins.
C39_JoinedBeforeFree ==
    /\ [](freed => Joined)
    /\ [][freed => /\ host_callback_handler' = host_callback_handler
                   /\ wine_io_handler' = wine_io_handler
                   /\ group_host_connect_handler' = group_host_connect_handler]_vars

\* C40: a call of dispatch() that waits for WH gets on, also when the plugin
\* calls the host, audioMasterProcessEvents included, while it handles the
\* request and WH answers only after the replies: the handler thread never
\* holds dispatch_mutex, dispatch_midi_events_mutex or parameters_mutex, holds
\* incoming_midi_events_mutex only to push one batch, and a thread in
\* process_replacing holds that mutex only while it waits for no socket; every
\* callback of the loaded plugin gets its reply.
C40_DispatchCompletes ==
    /\ [](\A m \in ChannelMutexes : lock[m] # "handler")
    /\ [](lock["incoming_midi_events_mutex"] = "handler"
            => host_callback_handler = "push")
    /\ [](\A t \in HostThreads :
            lock["incoming_midi_events_mutex"] = t => pc[t] = "midi_deliver")
    /\ \A t \in HostThreads :
          (pc[t] = "send_event_read") ~> (pc[t] # "send_event_read" \/ ~Alive)
    /\ (cb_waiting /\ ctor = "done")
          ~> (~cb_waiting \/ ~Alive \/ host_callback_handler = "exited")

\* The dispatching thread waits for WH, WH waits for the reply to the plugin's
\* audioMasterProcessEvents, and the handler thread waits for the mutex a
\* thread in process_replacing holds.
C40_Witness ==
    /\ pc["gui"] = "send_event_read" /\ call["gui"].op = "effOther"
    /\ lock["dispatch_mutex"] = "gui"
    /\ req["dispatch"] # <<>>
    /\ cb_waiting
    /\ host_callback_handler = "lock"
    /\ pc["audio"] = "midi_deliver"
    /\ lock["incoming_midi_events_mutex"] = "audio"

====
